---- MODULE Spec2Model ----
(***************************************************************************)
(* Reolink hub plugin: the hub session/command client (ReolinkHubClient)   *)
(* and the provider's poll tick that drives it.                            *)
(*                                                                         *)
(* Time is counted in units of 30 seconds and kept relative to the present *)
(* instant: Date.now() reads 0 in every state, a timestamp stored t units  *)
(* ago is -t, and the passing of d units moves every stored timestamp d    *)
(* units into the past (the code only ever compares differences of         *)
(* timestamps).  JavaScript runs one callback at a time: an async function runs    *)
(* without interruption until it awaits a network operation                *)
(* (getLoginParameters or authHttpFetch), so one action of this model is   *)
(* the run of one caller from an invocation or a network completion to its *)
(* next network await or to its end.  An await of a call that finished     *)
(* without touching the network continues in the same action.              *)
(***************************************************************************)
EXTENDS Integers, Sequences, FiniteSets, TLC

\* ---- bounds of the model ----
MaxAge      == 3        \* the clock is moved in short steps up to this age of the connection
MaxCount    == 6        \* cap of the two error counters
MaxCams     == 2        \* number of channels of the hub that can be registered
MaxWait     == 1        \* the longest time a tick of the channel loop lasts (units of 5 s)

\* ---- program constants, in units of 30 s ----
Grace            == 2       \* setTimeout(..., 1000 * 60) in reboot()
StaleAfter       == 120     \* 1000 * 60 * 60 in checkErrors()
ErrorThreshold   == 5       \* loginFirstCount > 5, maxSessionsCount > 5
ErrorsCheckEvery == 2       \* now - lastErrorsCheck > 60 * 1000
LoginFirst       == -6      \* rspCode "please login first"
MaxSession       == -5      \* rspCode "max session"
OtherError       == -1      \* any other rspCode
AckCode          == 200     \* value.rspCode of a command the hub accepted
now              == 0       \* Date.now()

Never       == -1000        \* a timestamp that is undefined
NoLease     == Never        \* tokenLease === undefined
NoParams    == -1           \* parameters === undefined (never assigned)
EmptyParams == 0            \* parameters = {} (no token)
Token       == 1            \* parameters = the token getLoginParameters returned

LeaseTimes == {2}           \* leaseTimeSeconds the hub may answer (60 s)
BatchSizes == {1, 6}        \* numbers of commands in a request
Jumps      == {1, 120}      \* amounts of time that pass in one step (30 s, 1 h)

\* the setInterval callback, a later invocation of it, a device-facing caller, the Reboot interface
Procs == {"poll", "poll2", "dev", "admin"}

\* ---- constants of the batches of the poll loop, in units of 5 s ----
StatusEvery   == 3          \* now - lastDevicesStatusCheck > 15 * 1000
BatteryEvery  == 2          \* the battery interval of 10 s
MotionTimeout == 4          \* storageSettings.values.motionTimeout, 20 s by default
NoTimer       == 0          \* motionTimeout is unset, cleared or has run
NoLevel       == -1         \* batteryLevel === undefined
Levels        == {80}       \* batteryPercent the hub may answer
Absent        == -1         \* no entry of a channel in value.status
Err           == -1         \* an element that carries an error instead of a value
NoEntry       == -2         \* abilities without an entry of a name
NoVer         == -1         \* an entry of the abilities without ver
SnapshotBattery == 3        \* now - lastSnapshotTaken > 1000 * 15
SnapshotMax   == 720        \* now - lastSnapshotTaken > 1000 * 60 * 60

\* ---- constants of the hub-info refresh, in minutes ----
RefreshEvery  == 5          \* now - lastHubInfoCheck > 1000 * 60 * 5
PerMinute     == 12         \* a minute in units of 5 s
HubAnswers    == {1, 2}     \* the answers of the hub to getHubInfo(), told apart

VARIABLES
    client,           \* the fields of ReolinkHubClient
    timers,           \* deadlines of the pending setTimeout callbacks of reboot()
    provider,         \* the fields of ReolinkProvider the tick uses
    stack,            \* per caller: its chain of suspended calls, innermost last
    last,             \* what the last step did: the calls, requests and exchanges made in it
                      \* and how a top-level call ended in it
    cams,             \* cameraChannelMap: the registered cameras in insertion order
    batch,            \* the last batch of the poll loop: request, response and what was
                      \* attributed to each channel
    devices,          \* the state each camera object mirrors, by channel
    loop,             \* the tick of the channel loop: where it waits, and its locals
    ev,               \* what the last step of the channel loop did
    hist,             \* history of the channel loop
    keys,             \* cameraChannelMap: the kind of key each camera is registered under
    released,         \* history: the channels whose device was released and not added again
    hub,              \* the hub-info refresh of the tick, and what the provider has stored
    camera,           \* one camera object: its abilities, its snapshot cache, its last call
    obs               \* history: the auth rejections tallied since reconnect() last
                      \* completed, when reboot() was last invoked, and when checkErrors()
                      \* was last entered (before the first time: when the provider was built)

vars == <<client, timers, provider, stack, last, cams, batch, devices, loop, ev, hist, keys,
          released, hub, camera, obs>>

clientVars  == <<client, timers, provider, stack, last, batch, obs>>
channelVars == <<devices, loop, ev, hist>>
restVars    == <<keys, released, hub, camera>>

\* ---- response bodies: 0 is an element with a value, a negative number one with error.rspCode ----
Elems == {0, LoginFirst, MaxSession, OtherError}

\* the hub answers every command of a batch alike: a rejected token or an
\* exhausted session table fails each of them with the same code
Batch(e, n) == [i \in 1..n |-> e]
Bodies == {Batch(e, n) : e \in Elems, n \in BatchSizes}

\* a value a call returns: undefined, or an object: a response with its body, or the
\* {value, data} of reboot() with ack its value (NoAck: value is undefined)
NoAck == 0
Undefined == [def |-> FALSE, body |-> <<>>, ack |-> NoAck]
Response(b) == [def |-> TRUE, body |-> b, ack |-> NoAck]

\* a frame of a caller's chain: f is the position in the code, cmd the command of a request,
\* tok the token a request in flight carries; in the frame of a top-level send() or
\* reboot(): at the time it was invoked, rb the value of rebooting then, n the number of
\* HTTP command requests it has issued so far
Frame(f) == [f |-> f, cmd |-> "", tok |-> NoParams, at |-> Never, rb |-> FALSE, n |-> 0]

Top(k)  == k[Len(k)]
Pop(k)  == SubSeq(k, 1, Len(k) - 1)
ReplaceTop(k, fr) == Append(Pop(k), fr)

\* how a frame is entered or resumed; fr is the frame of a top-level call that ended
Call         == [t |-> "call",  v |-> Undefined, tok |-> 0, lease |-> 0, fr |-> Frame("")]
Ret(v)       == [t |-> "ret",   v |-> v,         tok |-> 0, lease |-> 0, fr |-> Frame("")]
Throw        == [t |-> "throw", v |-> Undefined, tok |-> 0, lease |-> 0, fr |-> Frame("")]
Wait         == [t |-> "wait",  v |-> Undefined, tok |-> 0, lease |-> 0, fr |-> Frame("")]
Granted(tok, lease) == [t |-> "ret", v |-> Undefined, tok |-> tok, lease |-> lease, fr |-> Frame("")]

\* a configuration: the mutable program state s, a caller's chain k, and the signal sig
Cfg(s, k, sig) == [s |-> s, k |-> k, sig |-> sig]

\* ------------------------------------------------------------------------
\* ReolinkHubClient
\* ------------------------------------------------------------------------

\* login() without the test of the lease
login_leaseless(cfg) ==
    LET s == cfg.s  k == cfg.k  sig == cfg.sig  c == cfg.s.client
    IN  IF Top(k).f = "login"
        THEN IF c.loggingIn
             THEN Cfg(s, Pop(k), Ret(Undefined))
             ELSE Cfg([s EXCEPT !.client.loggingIn = TRUE, !.xchg = TRUE],
                      ReplaceTop(k, Frame("login.await")), Wait)
        ELSE IF sig.t = "throw"
             THEN Cfg(s, Pop(k), Throw)
             ELSE Cfg([s EXCEPT !.client.parameters = sig.tok,
                                !.client.tokenLease = now + sig.lease,
                                !.client.loggingIn = FALSE,
                                !.client.loggedIn = TRUE,
                                !.client.conmnectionTime = now],
                      Pop(k), Ret(Undefined))

\* login() without the loggingIn guard
login_unguarded(cfg) ==
    LET s == cfg.s  k == cfg.k  sig == cfg.sig  c == cfg.s.client
    IN  IF Top(k).f = "login"
        THEN IF c.tokenLease # NoLease /\ c.tokenLease > now
             THEN Cfg(s, Pop(k), Ret(Undefined))
             ELSE Cfg([s EXCEPT !.client.loggingIn = TRUE, !.xchg = TRUE],
                      ReplaceTop(k, Frame("login.await")), Wait)
        ELSE IF sig.t = "throw"
             THEN Cfg(s, Pop(k), Throw)
             ELSE Cfg([s EXCEPT !.client.parameters = sig.tok,
                                !.client.tokenLease = now + sig.lease,
                                !.client.loggingIn = FALSE,
                                !.client.loggedIn = TRUE,
                                !.client.conmnectionTime = now],
                      Pop(k), Ret(Undefined))

\* login(): frame "login" is its entry, "login.await" the await of getLoginParameters
login(cfg) ==
    LET s == cfg.s  k == cfg.k  sig == cfg.sig  c == cfg.s.client
    IN  IF Top(k).f = "login"
        THEN IF c.tokenLease # NoLease /\ c.tokenLease > now
             THEN Cfg(s, Pop(k), Ret(Undefined))
             ELSE IF c.loggingIn
             THEN Cfg(s, Pop(k), Ret(Undefined))
             ELSE Cfg([s EXCEPT !.client.loggingIn = TRUE, !.xchg = TRUE],
                      ReplaceTop(k, Frame("login.await")), Wait)
        ELSE IF sig.t = "throw"
             THEN Cfg(s, Pop(k), Throw)
             ELSE Cfg([s EXCEPT !.client.parameters = sig.tok,
                                !.client.tokenLease = now + sig.lease,
                                !.client.loggingIn = FALSE,
                                !.client.loggedIn = TRUE,
                                !.client.conmnectionTime = now],
                      Pop(k), Ret(Undefined))

\* the elements of a response body that carry an error
Errors(body) == SelectSeq(body, LAMBDA e : e # 0)

Min(a, b) == IF a < b THEN a ELSE b

\* the loop over the errors of a response in requestWithLogin()
RECURSIVE tally(_, _)
tally(c, errors) ==
    IF errors = <<>> THEN c
    ELSE LET code == Head(errors)
             c1 == IF code = LoginFirst
                   THEN [c EXCEPT !.loginFirstCount = @ + 1]
                   ELSE IF code = MaxSession
                   THEN [c EXCEPT !.maxSessionsCount = @ + 1]
                   ELSE [c EXCEPT !.maxSessionsCount = 0, !.loginFirstCount = 0]
         IN  tally(c1, Tail(errors))

\* history: the auth rejections tallied since reconnect() last completed
Tallied(o, errors) ==
    [o EXCEPT !.authTallied =
        Min(ErrorThreshold + 1, @ + Len(SelectSeq(errors, LAMBDA e : e = LoginFirst)))]

\* requestWithLogin() without the test of rebooting
requestWithLogin_unchecked(cfg) ==
    LET s == cfg.s  k == cfg.k  sig == cfg.sig  c == cfg.s.client  top == Top(cfg.k)
    IN  IF top.f = "rwl"
        THEN Cfg(s, Append(ReplaceTop(k, [top EXCEPT !.f = "rwl.login"]), Frame("login")), Call)
        ELSE IF sig.t = "throw"
        THEN Cfg(s, Pop(k), Throw)
        ELSE IF top.f = "rwl.login"
        THEN IF c.parameters = NoParams
             THEN Cfg(s, Pop(k), Ret(Undefined))
             ELSE LET k1 == ReplaceTop(k, [top EXCEPT !.f = "rwl.await", !.tok = c.parameters])
                  IN  Cfg([s EXCEPT !.sent = top.cmd],
                          [k1 EXCEPT ![1].n = IF k[1].f \in {"send.await", "providerReboot.await"}
                                              THEN @ + 1 ELSE @], Wait)
        ELSE Cfg([s EXCEPT !.client = tally(c, Errors(sig.v.body)),
                           !.obs = Tallied(@, Errors(sig.v.body)),
                           !.got = IF Errors(sig.v.body) = <<>> THEN "clean" ELSE "errors"],
                 Pop(k), Ret(sig.v))

\* requestWithLogin(): "rwl" is its entry, "rwl.login" the await of login(),
\* "rwl.await" the await of the HTTP request
requestWithLogin(cfg) ==
    LET s == cfg.s  k == cfg.k  sig == cfg.sig  c == cfg.s.client  top == Top(cfg.k)
    IN  IF top.f = "rwl"
        THEN Cfg(s, Append(ReplaceTop(k, [top EXCEPT !.f = "rwl.login"]), Frame("login")), Call)
        ELSE IF sig.t = "throw"
        THEN Cfg(s, Pop(k), Throw)
        ELSE IF top.f = "rwl.login"
        THEN IF c.parameters = NoParams
             THEN Cfg(s, Pop(k), Ret(Undefined))
             ELSE IF c.rebooting
             THEN Cfg(s, Pop(k), Ret(Undefined))
             ELSE LET k1 == ReplaceTop(k, [top EXCEPT !.f = "rwl.await", !.tok = c.parameters])
                  IN  Cfg([s EXCEPT !.sent = top.cmd],
                          [k1 EXCEPT ![1].n = IF k[1].f \in {"send.await", "providerReboot.await"}
                                              THEN @ + 1 ELSE @], Wait)
        ELSE Cfg([s EXCEPT !.client = tally(c, Errors(sig.v.body)),
                           !.obs = Tallied(@, Errors(sig.v.body)),
                           !.got = IF Errors(sig.v.body) = <<>> THEN "clean" ELSE "errors"],
                 Pop(k), Ret(sig.v))

\* what reboot() returns for the response of its request
RebootResult(v) ==
    [def |-> TRUE, body |-> v.body,
     ack |-> IF v.def /\ Len(v.body) > 0 /\ v.body[1] = 0 THEN AckCode ELSE NoAck]

\* reboot(): "reboot" is its entry, "reboot.rwl" the await of requestWithLogin()
reboot(cfg) ==
    LET s == cfg.s  k == cfg.k  sig == cfg.sig  top == Top(cfg.k)
    IN  IF top.f = "reboot"
        THEN Cfg([s EXCEPT !.client.rebooting = TRUE, !.obs.rebootAt = now,
                           !.calls = @ \cup {"reboot"}],
                 Append(ReplaceTop(k, [top EXCEPT !.f = "reboot.rwl"]),
                        [Frame("rwl") EXCEPT !.cmd = "Reboot"]), Call)
        ELSE IF sig.t = "throw"
        THEN Cfg(s, Pop(k), Throw)
        ELSE Cfg([s EXCEPT !.timers = @ \cup {now + Grace}], Pop(k), Ret(RebootResult(sig.v)))

\* logout(): "logout" is its entry, "logout.rwl" the await of requestWithLogin()
logout(cfg) ==
    LET s == cfg.s  k == cfg.k  sig == cfg.sig  top == Top(cfg.k)
    IN  IF top.f = "logout"
        THEN Cfg(s, Append(ReplaceTop(k, [top EXCEPT !.f = "logout.rwl"]),
                           [Frame("rwl") EXCEPT !.cmd = "Logout"]), Call)
        ELSE IF sig.t = "throw"
        THEN Cfg([s EXCEPT !.loggedOut = TRUE], Pop(k), Throw)
        ELSE Cfg([s EXCEPT !.client.tokenLease = NoLease, !.client.parameters = EmptyParams,
                           !.loggedOut = TRUE],
                 Pop(k), Ret(Undefined))

\* reconnect(): "reconnect" is its entry, then the awaits of logout() and of login()
reconnect(cfg) ==
    LET s == cfg.s  k == cfg.k  sig == cfg.sig  top == Top(cfg.k)
    IN  IF top.f = "reconnect"
        THEN Cfg([s EXCEPT !.calls = @ \cup {"reconnect"}],
                 Append(ReplaceTop(k, [top EXCEPT !.f = "reconnect.logout"]), Frame("logout")), Call)
        ELSE IF sig.t = "throw"
        THEN Cfg(s, Pop(k), Throw)
        ELSE IF top.f = "reconnect.logout"
        THEN Cfg(s, Append(ReplaceTop(k, [top EXCEPT !.f = "reconnect.login"]), Frame("login")), Call)
        ELSE Cfg([s EXCEPT !.obs.authTallied = 0, !.reconnected = TRUE],
                 Pop(k), Ret(Undefined))

\* checkErrors() with thresholds that are reached at 5 errors already
checkErrors_atFive(cfg) ==
    LET s == cfg.s  k == cfg.k  sig == cfg.sig  top == Top(cfg.k)  c == cfg.s.client
        s1 == [s EXCEPT !.checked = TRUE, !.obs.checkAt = now]
        k1 == ReplaceTop(k, [top EXCEPT !.f = "checkErrors.await"])
    IN  IF top.f = "checkErrors"
        THEN IF c.rebooting
             THEN Cfg(s1, Pop(k), Ret(Undefined))
             ELSE IF now - c.conmnectionTime > StaleAfter \/ c.loginFirstCount >= ErrorThreshold
             THEN Cfg(s1, Append(k1, Frame("reconnect")), Call)
             ELSE IF c.maxSessionsCount >= ErrorThreshold
             THEN Cfg(s1, Append(k1, Frame("reboot")), Call)
             ELSE Cfg(s1, Pop(k), Ret(Undefined))
        ELSE IF sig.t = "throw"
        THEN Cfg(s, Pop(k), Throw)
        ELSE Cfg(s, Pop(k), Ret(Undefined))

\* checkErrors(): "checkErrors" is its entry, "checkErrors.await" the await of the call it makes
checkErrors(cfg) ==
    LET s == cfg.s  k == cfg.k  sig == cfg.sig  top == Top(cfg.k)  c == cfg.s.client
        s1 == [s EXCEPT !.checked = TRUE, !.obs.checkAt = now]
        k1 == ReplaceTop(k, [top EXCEPT !.f = "checkErrors.await"])
    IN  IF top.f = "checkErrors"
        THEN IF c.rebooting
             THEN Cfg(s1, Pop(k), Ret(Undefined))
             ELSE IF now - c.conmnectionTime > StaleAfter \/ c.loginFirstCount > ErrorThreshold
             THEN Cfg(s1, Append(k1, Frame("reconnect")), Call)
             ELSE IF c.maxSessionsCount > ErrorThreshold
             THEN Cfg(s1, Append(k1, Frame("reboot")), Call)
             ELSE Cfg(s1, Pop(k), Ret(Undefined))
        ELSE IF sig.t = "throw"
        THEN Cfg(s, Pop(k), Throw)
        ELSE Cfg(s, Pop(k), Ret(Undefined))

\* ------------------------------------------------------------------------
\* the callers of the client
\* ------------------------------------------------------------------------

\* a device-facing operation (PTZ, siren, OSD, ...): one requestWithLogin() call
send(cfg) ==
    LET s == cfg.s  k == cfg.k  top == Top(cfg.k)
    IN  IF top.f = "send"
        THEN Cfg(s, Append(ReplaceTop(k, [top EXCEPT !.f = "send.await", !.at = now, !.rb = s.client.rebooting]),
                           [Frame("rwl") EXCEPT !.cmd = "Cmd"]), Call)
        ELSE Cfg(s, Pop(k), [cfg.sig EXCEPT !.fr = top])

\* a caller of client.login(): init() of the provider, a camera before streaming
callLogin(cfg) ==
    LET s == cfg.s  k == cfg.k  top == Top(cfg.k)
    IN  IF top.f = "callLogin"
        THEN Cfg(s, Append(ReplaceTop(k, [top EXCEPT !.f = "callLogin.await"]),
                           Frame("login")), Call)
        ELSE Cfg(s, Pop(k), [cfg.sig EXCEPT !.fr = top])

\* ReolinkProvider.reboot(): the Reboot interface of the plugin
providerReboot(cfg) ==
    LET s == cfg.s  k == cfg.k  top == Top(cfg.k)
    IN  IF top.f = "providerReboot"
        THEN Cfg(s, Append(ReplaceTop(k, [top EXCEPT !.f = "providerReboot.await", !.at = now, !.rb = s.client.rebooting]),
                           Frame("reboot")), Call)
        ELSE Cfg(s, Pop(k), [cfg.sig EXCEPT !.fr = top])

\* the end of the tick without the finally block
tickEnd_flagKept(s, k) == Cfg(s, Pop(k), [Ret(Undefined) EXCEPT !.fr = Top(k)])

\* the catch and finally of the tick
tickEnd(s, k) == Cfg([s EXCEPT !.provider.processing = FALSE], Pop(k), [Ret(Undefined) EXCEPT !.fr = Top(k)])

\* the tick from the events batch on: the batch is sent when a camera is registered
tickEvents(s, k) ==
    IF cams # <<>>
    THEN Cfg(s, Append(ReplaceTop(k, [Top(k) EXCEPT !.f = "tick.getEvents"]),
                       [Frame("rwl") EXCEPT !.cmd = "GetEvents"]), Call)
    ELSE tickEnd(s, k)

\* the tick without the test of processing
tick_reentrant(cfg) ==
    LET s == cfg.s  k == cfg.k  sig == cfg.sig  top == Top(cfg.k)
    IN  IF top.f = "tick"
        THEN IF FALSE
             THEN Cfg(s, Pop(k), [Ret(Undefined) EXCEPT !.fr = top])
             ELSE LET s1 == [s EXCEPT !.provider.processing = TRUE]
                  IN  IF now - s.provider.lastErrorsCheck > ErrorsCheckEvery
                      THEN Cfg([s1 EXCEPT !.provider.lastErrorsCheck = now],
                               Append(ReplaceTop(k, [top EXCEPT !.f = "tick.checkErrors"]),
                                      Frame("checkErrors")), Call)
                      ELSE tickEvents(s1, k)
        ELSE IF sig.t = "throw"
        THEN tickEnd(s, k)
        ELSE IF top.f = "tick.checkErrors"
        THEN tickEvents(s, k)
        ELSE tickEnd(s, k)

\* the tick without the assignment processing = true
tick_unflagged(cfg) ==
    LET s == cfg.s  k == cfg.k  sig == cfg.sig  top == Top(cfg.k)
    IN  IF top.f = "tick"
        THEN IF s.provider.processing
             THEN Cfg(s, Pop(k), [Ret(Undefined) EXCEPT !.fr = top])
             ELSE LET s1 == s
                  IN  IF now - s.provider.lastErrorsCheck > ErrorsCheckEvery
                      THEN Cfg([s1 EXCEPT !.provider.lastErrorsCheck = now],
                               Append(ReplaceTop(k, [top EXCEPT !.f = "tick.checkErrors"]),
                                      Frame("checkErrors")), Call)
                      ELSE tickEvents(s1, k)
        ELSE IF sig.t = "throw"
        THEN tickEnd(s, k)
        ELSE IF top.f = "tick.checkErrors"
        THEN tickEvents(s, k)
        ELSE tickEnd(s, k)

\* the tick without the assignment lastErrorsCheck = now
tick_unthrottled(cfg) ==
    LET s == cfg.s  k == cfg.k  sig == cfg.sig  top == Top(cfg.k)
    IN  IF top.f = "tick"
        THEN IF s.provider.processing
             THEN Cfg(s, Pop(k), [Ret(Undefined) EXCEPT !.fr = top])
             ELSE LET s1 == [s EXCEPT !.provider.processing = TRUE]
                  IN  IF now - s.provider.lastErrorsCheck > ErrorsCheckEvery
                      THEN Cfg(s1,
                               Append(ReplaceTop(k, [top EXCEPT !.f = "tick.checkErrors"]),
                                      Frame("checkErrors")), Call)
                      ELSE tickEvents(s1, k)
        ELSE IF sig.t = "throw"
        THEN tickEnd(s, k)
        ELSE IF top.f = "tick.checkErrors"
        THEN tickEvents(s, k)
        ELSE tickEnd(s, k)

\* the callback of setInterval in init(), as far as the client sees it: the throttled
\* checkErrors(), then the events batch (getEvents).  The hub-info, battery and status
\* batches of a tick are further requestWithLogin() calls of the same shape.
tick(cfg) ==
    LET s == cfg.s  k == cfg.k  sig == cfg.sig  top == Top(cfg.k)
    IN  IF top.f = "tick"
        THEN IF s.provider.processing
             THEN Cfg(s, Pop(k), [Ret(Undefined) EXCEPT !.fr = top])
             ELSE LET s1 == [s EXCEPT !.provider.processing = TRUE]
                  IN  IF now - s.provider.lastErrorsCheck > ErrorsCheckEvery
                      THEN Cfg([s1 EXCEPT !.provider.lastErrorsCheck = now],
                               Append(ReplaceTop(k, [top EXCEPT !.f = "tick.checkErrors"]),
                                      Frame("checkErrors")), Call)
                      ELSE tickEvents(s1, k)
        ELSE IF sig.t = "throw"
        THEN tickEnd(s, k)
        ELSE IF top.f = "tick.checkErrors"
        THEN tickEvents(s, k)
        ELSE tickEnd(s, k)

\* one step of the code of the innermost frame
Micro(cfg) ==
    LET f == Top(cfg.k).f
    IN  IF f \in {"login", "login.await"} THEN login(cfg)
        ELSE IF f \in {"rwl", "rwl.login", "rwl.await"} THEN requestWithLogin(cfg)
        ELSE IF f \in {"reboot", "reboot.rwl"} THEN reboot(cfg)
        ELSE IF f \in {"logout", "logout.rwl"} THEN logout(cfg)
        ELSE IF f \in {"reconnect", "reconnect.logout", "reconnect.login"} THEN reconnect(cfg)
        ELSE IF f \in {"checkErrors", "checkErrors.await"} THEN checkErrors(cfg)
        ELSE IF f \in {"send", "send.await"} THEN send(cfg)
        ELSE IF f \in {"callLogin", "callLogin.await"} THEN callLogin(cfg)
        ELSE IF f \in {"providerReboot", "providerReboot.await"} THEN providerReboot(cfg)
        ELSE tick(cfg)

\* a caller runs until it awaits the network or its top-level call ends
RECURSIVE Run(_)
Run(cfg) ==
    IF cfg.k = <<>> \/ cfg.sig.t = "wait" THEN cfg
    ELSE CHOOSE r \in {Run(c) : c \in {Micro(cfg)}} : TRUE

\* ------------------------------------------------------------------------
\* the state machine
\* ------------------------------------------------------------------------

\* the program state a step starts from; what the step does is collected in checked
\* (checkErrors() is entered), calls (the calls of reconnect() and reboot() made), sent (the
\* command of the request issued), xchg (a credential exchange is started) and got (a
\* response arrived: "clean" without a per-command error, "errors" with one) and loggedOut
\* (a call of logout() ended, by return or by exception) and reconnected (a call of
\* reconnect() returned)
State == [client |-> client, timers |-> timers, provider |-> provider, obs |-> obs,
          checked |-> FALSE, calls |-> {}, sent |-> "", xchg |-> FALSE, got |-> "",
          loggedOut |-> FALSE, reconnected |-> FALSE]

\* what a step shows: op the top-level operation it belongs to, inv whether the step is
\* the invocation of that call, ended whether that call ended in it, and then def whether it returned an object and ack the value of reboot()'s
\* result; at, rb and n of the call's frame; checked, calls, sent, xchg and got as collected
Nothing == [op |-> "", inv |-> FALSE, ended |-> FALSE, def |-> FALSE, ack |-> NoAck,
            at |-> Never, rb |-> FALSE, n |-> 0,
            checked |-> FALSE, calls |-> {}, sent |-> "", xchg |-> FALSE, got |-> "",
            loggedOut |-> FALSE, reconnected |-> FALSE]

\* ---- the batches of the poll loop ----

Channels  == 0 .. (MaxCams - 1)
NoChannel == -1             \* an element without value.channel

\* what camera.ts reads from the abilities of a channel; a camera whose abilities are not
\* resolved answers false to each has...() question
Unresolved == [abilities |-> FALSE, hasPirEvents |-> FALSE, hasBattery |-> FALSE,
               hasFloodlight |-> FALSE, hasPtz |-> FALSE, sleeping |-> FALSE]
Plain      == [Unresolved EXCEPT !.abilities = TRUE]
Kinds == { Unresolved, Plain,
           [Plain EXCEPT !.hasPirEvents = TRUE, !.hasBattery = TRUE],
           [Plain EXCEPT !.hasPirEvents = TRUE, !.hasBattery = TRUE, !.sleeping = TRUE],
           [Plain EXCEPT !.hasFloodlight = TRUE, !.hasPtz = TRUE] }

\* the camera of kind kd on channel ch
Camera(ch, kd) == [channel |-> ch, caps |-> kd]

\* the maps of registered cameras: any order, one camera per channel
CameraMaps ==
    UNION { { cs \in [1..n -> {Camera(ch, kd) : ch \in Channels, kd \in Kinds}] :
                \A i, j \in 1..n : i # j => cs[i].channel # cs[j].channel } : n \in 0..MaxCams }

\* devicesMap of a tick: the cameras whose abilities are resolved
devicesMap(cs) == SelectSeq(cs, LAMBDA c : c.caps.abilities)

Command(cmd, ch) == [cmd |-> cmd, channel |-> ch]

\* the request body getEvents() builds
RECURSIVE eventsBody(_)
eventsBody(dm) ==
    IF dm = <<>> THEN <<>>
    ELSE LET c == Head(dm)
         IN  (IF c.caps.hasPirEvents
              THEN <<Command("GetEvents", c.channel)>>
              ELSE <<Command("GetMdState", c.channel), Command("GetAiState", c.channel)>>)
             \o eventsBody(Tail(dm))

\* ret of getEvents(): each element of the response goes to the channel its value names
eventsParsed(rsp) ==
    [ch \in Channels |-> {i \in 1..Len(rsp) : rsp[i].channel = ch}]

\* the commands getStatusInfo() pushes for one channel, and chanelIndex: the position of
\* each of them in the body (0: not pushed), when n commands precede them
statusCommands(c) ==
    IF c.caps.sleeping THEN <<>>
    ELSE <<Command("GetOsd", c.channel)>>
         \o (IF c.caps.hasFloodlight THEN <<Command("GetWhiteLed", c.channel)>> ELSE <<>>)
         \o (IF c.caps.hasPirEvents THEN <<Command("GetPirInfo", c.channel)>> ELSE <<>>)
         \o (IF c.caps.hasPtz THEN <<Command("GetPtzPreset", c.channel)>> ELSE <<>>)

statusIndex(c, n) ==
    LET cmds == statusCommands(c)
        At(cmd) == IF \E i \in 1..Len(cmds) : cmds[i].cmd = cmd
                   THEN n + CHOOSE i \in 1..Len(cmds) : cmds[i].cmd = cmd
                   ELSE 0
    IN  [osd |-> At("GetOsd"), floodlight |-> At("GetWhiteLed"),
         pir |-> At("GetPirInfo"), presets |-> At("GetPtzPreset")]

RECURSIVE statusBody(_)
statusBody(dm) ==
    IF dm = <<>> THEN <<>> ELSE statusCommands(Head(dm)) \o statusBody(Tail(dm))

\* channelData of getStatusInfo(): the positions of the response read for each channel
statusParsed(dm) ==
    [ch \in Channels |->
        IF \E i \in 1..Len(dm) : dm[i].channel = ch
        THEN LET i == CHOOSE i \in 1..Len(dm) : dm[i].channel = ch
                 c == dm[i]
                 ix == statusIndex(c, Len(statusBody(SubSeq(dm, 1, i - 1))))
             IN  (IF ix.osd # 0 THEN {ix.osd} ELSE {})
                 \cup (IF c.caps.hasFloodlight /\ ix.floodlight # 0 THEN {ix.floodlight} ELSE {})
                 \cup (IF c.caps.hasPirEvents /\ ix.pir # 0 THEN {ix.pir} ELSE {})
                 \cup (IF c.caps.hasPtz /\ ix.presets # 0 THEN {ix.presets} ELSE {})
        ELSE {}]

\* the battery channels of getBatteryInfo(), its request body and channelData
batteryChannels(dm) == SelectSeq(dm, LAMBDA c : c.caps.hasBattery)

batteryBody(dm) ==
    <<Command("GetChannelstatus", NoChannel)>>
    \o [i \in 1..Len(batteryChannels(dm)) |-> Command("GetBatteryInfo", batteryChannels(dm)[i].channel)]

\* (the first element answers GetChannelstatus and is read for every battery channel)
batteryParsed(dm) ==
    [ch \in Channels |->
        {i + 1 : i \in {j \in 1..Len(batteryChannels(dm)) : batteryChannels(dm)[j].channel = ch}}]

NoBatch == [kind |-> "", req |-> <<>>, rsp |-> <<>>, out |-> [ch \in Channels |-> {}]]

\* ---- the channel loop: what a tick does with the cameras ----

\* a camera object before any data has arrived
NewDevice == [motionDetected |-> FALSE, motionTimeout |-> NoTimer,
              batteryLevel |-> NoLevel, floodlightOn |-> FALSE, pirOn |-> FALSE]

IdleLoop == [pc |-> "idle", devicesMap |-> <<>>, now |-> now, lastDevicesStatusCheck |-> now]

NoEv == [op |-> "", sent |-> "", req |-> <<>>, rsp |-> <<>>, data |-> {}, raised |-> {}, processed |-> {},
         missing |-> {}, woke |-> {}, positive |-> {},
         detections |-> [ch \in Channels |-> {}], sinceBattery |-> 0, sinceStatus |-> 0]

NoHist == [batterySentAt |-> Never, statusSentAt |-> Never, woke |-> {}]

\* ---- the hub-info refresh of the tick ----

\* what the provider has stored: the answer of the hub the abilities and the hub data were
\* read from (0: none yet), and per channel the positions of the response its
\* channelInfo and ai were read from
NoStored == [abilities |-> 0, hubData |-> 0, devicesData |-> <<>>]

\* the refresh before the first tick: lastHubInfoCheck is undefined
NoHub == [pc |-> "idle", op |-> "", lastHubInfoCheck |-> Never, abilities |-> 0,
          channels |-> 0, len |-> 0, thrown |-> FALSE, ret |-> <<>>, stored |-> NoStored,
          attemptAt |-> Never, failedAt |-> Never]

\* !this.lastHubInfoCheck || now - this.lastHubInfoCheck > 1000 * 60 * 5
Due(h) == h.lastHubInfoCheck = Never \/ now - h.lastHubInfoCheck > RefreshEvery

\* the refresh begins: the time is noted before anything is asked
refreshStart_unstamped(h) ==
    [h EXCEPT !.pc = "hubInfo", !.op = "refresh", !.attemptAt = now, !.thrown = FALSE]

refreshStart(h) ==
    [h EXCEPT !.pc = "hubInfo", !.op = "refresh", !.lastHubInfoCheck = now,
              !.attemptAt = now, !.thrown = FALSE]

\* getDevicesInfo() with n channels and a response of len elements: the k-th channel
\* (from 0) reads response.body[3k] and response.body[3k + 1], and reading .error of an
\* element that is not there throws
getDevicesInfo(n, len) ==
    [thrown |-> \E k \in 0..(n - 1) : 3 * k >= len \/ 3 * k + 1 >= len,
     ret |-> [k \in 1..n |-> [chnInfo |-> 3 * (k - 1), ai |-> 3 * (k - 1) + 1]]]


\* ---- one camera object: its abilities, its capability flags, its snapshot cache ----

\* what abilityChn[channel] holds under a name: no entry, an entry without ver, or a ver
Versions      == {0, 1}
AbilityValues == {NoEntry, NoVer} \cup Versions
AbilityNames  == {"supportAudioAlarm", "floodLight", "supportFLswitch", "supportFLBrightness",
                  "battery", "supportDigitalZoom", "ptzCtrl", "ptzPreset", "mdWithPir"}

\* no entry under any name; a channel without abilities reads the same, every
\* abilities?.name being undefined
NoAbilities == [n \in AbilityNames |-> NoEntry]

\* the abilities of a channel: the entries of one capability take any values
AbilitiesOver(names) ==
    {[n \in AbilityNames |-> IF n \in names THEN f[n] ELSE NoEntry] : f \in [names -> AbilityValues]}

CameraAbilities ==
    AbilitiesOver({"supportAudioAlarm"}) \cup AbilitiesOver({"battery"})
    \cup AbilitiesOver({"mdWithPir"})
    \cup AbilitiesOver({"floodLight", "supportFLswitch", "supportFLBrightness"})
    \cup AbilitiesOver({"supportDigitalZoom", "ptzCtrl", "ptzPreset"})

\* abilities?.name?.ver ?? 0
VerOf(ab, n) == IF ab[n] \in {NoEntry, NoVer} THEN 0 ELSE ab[n]

\* hasAbility && hasAbility?.ver !== 0, as the JavaScript value it is
hasSiren(ab) ==
    IF ab["supportAudioAlarm"] = NoEntry THEN "undefined"
    ELSE IF ab["supportAudioAlarm"] # 0 THEN "true" ELSE "false"

hasFloodlight(ab) ==
    \/ VerOf(ab, "floodLight") > 0
    \/ VerOf(ab, "supportFLswitch") > 0
    \/ VerOf(ab, "supportFLBrightness") > 0

hasBattery(ab) == VerOf(ab, "battery") > 0

getPtzCapabilities(ab) ==
    LET hasZoom    == VerOf(ab, "supportDigitalZoom") > 0
        hasPanTilt == VerOf(ab, "ptzCtrl") > 0
        hasPresets == VerOf(ab, "ptzPreset") > 0
    IN  [hasZoom |-> hasZoom, hasPanTilt |-> hasPanTilt, hasPresets |-> hasPresets,
         hasPtz |-> hasZoom \/ hasPanTilt \/ hasPresets]

hasPirEvents(ab) == VerOf(ab, "mdWithPir") > 0

NoFlags == [hasSiren |-> "", hasFloodlight |-> FALSE, hasBattery |-> FALSE,
            hasPtz |-> FALSE, hasPirEvents |-> FALSE]

\* a camera object with abilities ab before any call
NewCamera(ab) == [abilities |-> ab, sleeping |-> FALSE, lastB64Snapshot |-> FALSE,
                  lastSnapshotTaken |-> Never, op |-> "", flags |-> NoFlags,
                  snap |-> FALSE, returned |-> ""]

NoCamera == NewCamera(NoAbilities)

isMaxTimePassed(c) ==
    c.lastSnapshotTaken = Never \/ now - c.lastSnapshotTaken > SnapshotMax
isBatteryTimePassed(c) ==
    c.lastSnapshotTaken = Never \/ now - c.lastSnapshotTaken > SnapshotBattery

\* canTake of takeSmartCameraPicture(), branch by branch
canTake(c) ==
    IF ~c.lastB64Snapshot \/ c.lastSnapshotTaken = Never THEN TRUE
    ELSE IF c.sleeping /\ isMaxTimePassed(c) THEN TRUE
    ELSE IF ~c.sleeping /\ hasBattery(c.abilities) /\ isBatteryTimePassed(c) THEN TRUE
    ELSE TRUE

InitChannels ==
    /\ devices = [ch \in Channels |-> NewDevice]
    /\ loop = IdleLoop
    /\ ev = NoEv
    /\ hist = NoHist

\* the cameras were built from their stored settings; no refresh, no snapshot yet
InitRest ==
    /\ keys = [i \in 1..Len(cams) |-> "id"]
    /\ released = {}
    /\ hub = NoHub
    /\ camera = NoCamera

Init ==
    /\ cams = <<Camera(0, Plain)>>
    /\ batch = NoBatch
    /\ InitChannels
    /\ client = [tokenLease |-> NoLease, parameters |-> NoParams, loggingIn |-> FALSE,
                 loggedIn |-> FALSE, rebooting |-> FALSE, conmnectionTime |-> now,
                 maxSessionsCount |-> 0, loginFirstCount |-> 0]
    /\ timers = {}
    /\ provider = [processing |-> FALSE, lastErrorsCheck |-> now]
    /\ stack = [p \in Procs |-> <<>>]
    /\ last = Nothing
    /\ obs = [authTallied |-> 0, rebootAt |-> Never, checkAt |-> now]
    /\ InitRest

\* the state after caller p, in top-level operation op, ran from configuration cfg0
Proceed(p, op, cfg0) ==
    \E cfg \in {Run(cfg0)} :
    LET fr == IF cfg.k = <<>> THEN cfg.sig.fr ELSE cfg.k[1]
    IN  /\ client' = cfg.s.client
        /\ timers' = cfg.s.timers
        /\ provider' = cfg.s.provider
        /\ obs' = cfg.s.obs
        /\ stack' = [stack EXCEPT ![p] = cfg.k]
        /\ last' = [op |-> op, inv |-> cfg0.sig.t = "call", ended |-> cfg.k = <<>>,
                    def |-> cfg.k = <<>> /\ cfg.sig.v.def,
                    ack |-> IF cfg.k = <<>> THEN cfg.sig.v.ack ELSE NoAck,
                    at |-> fr.at, rb |-> fr.rb, n |-> fr.n,
                    checked |-> cfg.s.checked, calls |-> cfg.s.calls, sent |-> cfg.s.sent,
                    xchg |-> cfg.s.xchg, got |-> cfg.s.got, loggedOut |-> cfg.s.loggedOut,
                    reconnected |-> cfg.s.reconnected]
        /\ UNCHANGED <<cams, batch>>
        /\ UNCHANGED <<channelVars, restVars>>

\* caller p invokes the top-level operation op
Invoke(p, op) ==
    /\ stack[p] = <<>>
    /\ Proceed(p, op, Cfg(State, <<Frame(op)>>, Call))

Tick == Invoke("poll", "tick")
Send == Invoke("dev", "send")
CallLogin == Invoke("dev", "callLogin")
ProviderReboot == Invoke("admin", "providerReboot")

\* the operation a suspended caller is in
OpOf(p) == IF stack[p][1].f = "send.await" THEN "send"
           ELSE IF stack[p][1].f = "callLogin.await" THEN "callLogin"
           ELSE IF stack[p][1].f = "providerReboot.await" THEN "providerReboot"
           ELSE "tick"

AwaitsLogin(p)   == stack[p] # <<>> /\ Top(stack[p]).f = "login.await"
AwaitsRequest(p) == stack[p] # <<>> /\ Top(stack[p]).f = "rwl.await"

\* getLoginParameters answers: a new token with a lease time
LoginOk(p, lease) ==
    /\ AwaitsLogin(p)
    /\ Proceed(p, OpOf(p), Cfg(State, stack[p], Granted(Token, lease)))

\* getLoginParameters throws
LoginFail(p) ==
    /\ AwaitsLogin(p)
    /\ Proceed(p, OpOf(p), Cfg(State, stack[p], Throw))


\* the hub answers a command request with a body
Respond(p, body) ==
    /\ AwaitsRequest(p)
    /\ LET c == tally(client, Errors(body))
       IN  c.loginFirstCount <= MaxCount /\ c.maxSessionsCount <= MaxCount
    /\ Proceed(p, OpOf(p), Cfg(State, stack[p], Ret(Response(body))))

\* the command request fails (authHttpFetch throws)
RequestFail(p) ==
    /\ AwaitsRequest(p)
    /\ Proceed(p, OpOf(p), Cfg(State, stack[p], Throw))

\* the callback reboot() scheduled with setTimeout
GraceTimer(d) ==
    /\ d \in timers
    /\ now >= d
    /\ timers' = timers \ {d}
    /\ client' = [client EXCEPT !.rebooting = FALSE, !.maxSessionsCount = 0, !.loginFirstCount = 0]
    /\ last' = Nothing
    /\ UNCHANGED <<provider, stack, obs, cams, batch>>
    /\ UNCHANGED <<channelVars, restVars>>

Max(a, b) == IF a > b THEN a ELSE b

\* a timestamp after d units have passed; one that is older than floor is kept at
\* floor, where every comparison the code makes with it has the same outcome
Shift(t, d, floor) == IF t = Never THEN Never ELSE Max(t - d, floor)

\* d units of time pass; a timer that is due runs before the clock moves past it.
\* Short steps are taken while the connection is young or already stale.
Advance(d) ==
    /\ \A t \in timers : now + d <= t
    /\ \/ d >= StaleAfter
       \/ now - client.conmnectionTime + d <= MaxAge
       \/ now - client.conmnectionTime >= StaleAfter
    /\ client' = [client EXCEPT !.tokenLease = Shift(@, d, now),
                                !.conmnectionTime = Shift(@, d, now - StaleAfter - 1)]
    /\ provider' = [provider EXCEPT !.lastErrorsCheck = Shift(@, d, now - ErrorsCheckEvery - 1)]
    /\ timers' = {t - d : t \in timers}
    /\ stack' = [p \in Procs |-> [i \in 1..Len(stack[p]) |->
                    [stack[p][i] EXCEPT !.at = Shift(@, d, now - Grace)]]]
    /\ obs' = [obs EXCEPT !.rebootAt = IF @ # Never /\ now < @ - d + Grace THEN @ - d ELSE Never,
                          !.checkAt = Shift(@, d, now - ErrorsCheckEvery - 1)]
    /\ last' = Nothing
    /\ UNCHANGED <<cams, batch>>
    /\ UNCHANGED <<channelVars, restVars>>

\* putSetting() drops the client, and the next getClient() builds a new one: the provider
\* works with a client in its first state from here on (taken while no call of the old
\* client is under way)
PutSetting ==
    /\ \A p \in Procs : stack[p] = <<>>
    /\ timers = {}
    /\ client' = [tokenLease |-> NoLease, parameters |-> NoParams, loggingIn |-> FALSE,
                  loggedIn |-> FALSE, rebooting |-> FALSE, conmnectionTime |-> now,
                  maxSessionsCount |-> 0, loginFirstCount |-> 0]
    /\ obs' = [obs EXCEPT !.authTallied = 0]
    /\ last' = [Nothing EXCEPT !.op = "putSetting"]
    /\ UNCHANGED <<timers, provider, stack, cams, batch>>
    /\ UNCHANGED <<channelVars, restVars>>

\* the answers to a batch of six commands: all accepted, or all refused for the session limit
SessionBodies == {Batch(e, 6) : e \in {0, MaxSession}}

Next ==
    \/ Tick
    \/ Send
    \/ CallLogin
    \/ ProviderReboot
    \/ \E p \in Procs, lease \in LeaseTimes : LoginOk(p, lease)
    \/ \E p \in Procs : LoginFail(p)
    \/ \E p \in Procs, body \in SessionBodies : Respond(p, body)
    \/ \E p \in Procs : RequestFail(p)
    \/ \E d \in timers : GraceTimer(d)
    \/ \E d \in Jumps : Advance(d)

Spec == Init /\ [][Next]_vars

\* the poll loop alone with the hub, every kind of answer
NextPoll ==
    \/ Tick
    \/ \E lease \in LeaseTimes : LoginOk("poll", lease)
    \/ LoginFail("poll")
    \/ \E body \in Bodies : Respond("poll", body)
    \/ RequestFail("poll")
    \/ \E d \in timers : GraceTimer(d)
    \/ \E d \in Jumps : Advance(d)

SpecPoll == Init /\ [][NextPoll]_vars

\* the poll loop and the settings page: the hub accepts every command
NextSettings ==
    \/ Tick
    \/ PutSetting
    \/ \E lease \in LeaseTimes : LoginOk("poll", lease)
    \/ LoginFail("poll")
    \/ Respond("poll", Batch(0, 6))
    \/ RequestFail("poll")
    \/ \E d \in Jumps : Advance(d)

SpecSettings == Init /\ [][NextSettings]_vars

\* the callers that are invocations of the setInterval callback
Timers == {"poll", "poll2"}

\* the timer fires while an earlier invocation of the callback may still be running
TickAgain == Invoke("poll2", "tick")

\* the poll loop with a timer that fires again at any time, next to a device-facing
\* caller; the hub accepts every command
NextTick ==
    \/ Tick
    \/ TickAgain
    \/ Send
    \/ \E p \in Timers \cup {"dev"}, lease \in LeaseTimes : LoginOk(p, lease)
    \/ \E p \in Timers \cup {"dev"} : LoginFail(p)
    \/ \E p \in Timers \cup {"dev"} : Respond(p, Batch(0, 6))
    \/ \E p \in Timers \cup {"dev"} : RequestFail(p)
    \/ \E d \in Jumps : Advance(d)

SpecTick == Init /\ [][NextTick]_vars

\* ---- the batches alone: any registered cameras, any answer of the right length ----

\* the answers of the hub to a request: each element repeats cmd and channel of its
\* command, except at most one, whose value names another channel or none
Answers(req) ==
    {req} \cup { [req EXCEPT ![i].channel = ch] :
                     i \in 1..Len(req), ch \in Channels \cup {NoChannel} }

\* the tick's getEvents(devicesMap) and its answer
GetEvents ==
    /\ cams # <<>>
    /\ \E rsp \in Answers(eventsBody(devicesMap(cams))) :
         batch' = [kind |-> "events", req |-> eventsBody(devicesMap(cams)), rsp |-> rsp,
                   out |-> eventsParsed(rsp)]
    /\ UNCHANGED <<client, timers, provider, stack, last, cams, obs>>
    /\ UNCHANGED <<channelVars, restVars>>

\* the tick's getBatteryInfo(devicesMap) and its answer
GetBatteryInfo ==
    /\ \E i \in 1..Len(devicesMap(cams)) : devicesMap(cams)[i].caps.hasBattery
    /\ \E rsp \in Answers(batteryBody(devicesMap(cams))) :
         batch' = [kind |-> "battery", req |-> batteryBody(devicesMap(cams)), rsp |-> rsp,
                   out |-> batteryParsed(devicesMap(cams))]
    /\ UNCHANGED <<client, timers, provider, stack, last, cams, obs>>
    /\ UNCHANGED <<channelVars, restVars>>

\* the tick's getStatusInfo(devicesMap) and its answer
GetStatusInfo ==
    /\ \E i \in 1..Len(devicesMap(cams)) : ~devicesMap(cams)[i].caps.sleeping
    /\ \E rsp \in Answers(statusBody(devicesMap(cams))) :
         batch' = [kind |-> "status", req |-> statusBody(devicesMap(cams)), rsp |-> rsp,
                   out |-> statusParsed(devicesMap(cams))]
    /\ UNCHANGED <<client, timers, provider, stack, last, cams, obs>>
    /\ UNCHANGED <<channelVars, restVars>>

InitBatch ==
    /\ cams \in CameraMaps
    /\ batch = NoBatch
    /\ InitChannels
    /\ client = [tokenLease |-> NoLease, parameters |-> NoParams, loggingIn |-> FALSE,
                 loggedIn |-> FALSE, rebooting |-> FALSE, conmnectionTime |-> now,
                 maxSessionsCount |-> 0, loginFirstCount |-> 0]
    /\ timers = {}
    /\ provider = [processing |-> FALSE, lastErrorsCheck |-> now]
    /\ stack = [p \in Procs |-> <<>>]
    /\ last = Nothing
    /\ obs = [authTallied |-> 0, rebootAt |-> Never, checkAt |-> now]
    /\ InitRest

NextBatch == GetEvents \/ GetBatteryInfo \/ GetStatusInfo

SpecBatch == InitBatch /\ [][NextBatch]_vars

\* ---- the channel loop alone: ticks, answers of the hub, time ----

BatteryPir == [Plain EXCEPT !.hasPirEvents = TRUE, !.hasBattery = TRUE]
Floodlit   == [Plain EXCEPT !.hasFloodlight = TRUE, !.hasPtz = TRUE]

\* the cameras of the channel loop: a battery camera with PIR events on channel 0, awake
\* or asleep, and a mains camera on channel 1, in either order of registration
Fleets ==
    LET as == {Camera(0, BatteryPir), Camera(0, [BatteryPir EXCEPT !.sleeping = TRUE])}
        bs == {Camera(1, Plain), Camera(1, Floodlit)}
    IN  {<<a>> : a \in as} \cup {<<b>> : b \in bs}
        \cup {<<a, b>> : a \in as, b \in bs} \cup {<<b, a>> : a \in as, b \in bs}

Registered(cs) == {cs[i].channel : i \in 1..Len(cs)}
CameraOn(cs, ch) == cs[CHOOSE i \in 1..Len(cs) : cs[i].channel = ch]

anyBattery(dm) == \E i \in 1..Len(dm) : dm[i].caps.hasBattery
anyAwaken(dm)  == \E i \in 1..Len(dm) : ~dm[i].caps.sleeping

\* the elements the hub may answer to one command of an events batch: an error, or a
\* value with the channel of the command
EventsElement(c) ==
    {[cmd |-> c.cmd, channel |-> NoChannel, state |-> FALSE, people |-> FALSE]}
    \cup {[cmd |-> c.cmd, channel |-> c.channel, state |-> st, people |-> pp] :
             st \in (IF c.cmd = "GetAiState" THEN {FALSE} ELSE BOOLEAN),
             pp \in (IF c.cmd = "GetMdState" THEN {FALSE} ELSE BOOLEAN)}

RECURSIVE EventsAnswers(_)
EventsAnswers(req) ==
    IF req = <<>> THEN {<<>>}
    ELSE {<<e>> \o r : e \in EventsElement(Head(req)), r \in EventsAnswers(Tail(req))}

\* ret[ch] of getEvents(): motion is a boolean from GetEvents (and by default) and the
\* number value.state from GetMdState; objects are the classes whose alarm_state is set
NoEvents == [has |-> FALSE, motion |-> "false", objects |-> {}]

RECURSIVE eventsRet(_, _, _)
eventsRet(rsp, ch, acc) ==
    IF rsp = <<>> THEN acc
    ELSE LET item == Head(rsp)
             elem == [acc EXCEPT !.has = TRUE]
             classes == IF item.people THEN {"people"} ELSE {}
         IN  IF item.channel # ch THEN eventsRet(Tail(rsp), ch, acc)
             ELSE IF item.cmd = "GetEvents"
             THEN eventsRet(Tail(rsp), ch,
                      [elem EXCEPT !.motion = IF item.state THEN "true" ELSE "false",
                                   !.objects = classes])
             ELSE IF item.cmd = "GetMdState"
             THEN eventsRet(Tail(rsp), ch, [elem EXCEPT !.motion = IF item.state THEN "1" ELSE "0"])
             ELSE eventsRet(Tail(rsp), ch, [elem EXCEPT !.objects = classes])

\* events.motion !== this.motionDetected, and the truth of events.motion
Differs(motion, flag) == motion # (IF flag THEN "true" ELSE "false")
Truthy(motion) == motion \in {"true", "1"}

processEvents_deaf(d, events) == d

processEvents_untimed(d, events) ==
    IF Differs(events.motion, d.motionDetected)
    THEN [d EXCEPT !.motionDetected = Truthy(events.motion), !.motionTimeout = NoTimer]
    ELSE d

processEvents(d, events) ==
    IF Differs(events.motion, d.motionDetected)
    THEN IF Truthy(events.motion)
         THEN [d EXCEPT !.motionDetected = TRUE, !.motionTimeout = MotionTimeout]
         ELSE [d EXCEPT !.motionDetected = FALSE, !.motionTimeout = NoTimer]
    ELSE d

\* the answers of the hub to a battery batch: value.status of the first element, which
\* may lack a channel, and the level of every other element or an error
BatteryAnswers(dm) ==
    [status : {st \in [Channels -> {Absent, 0, 1}] :
                  \A ch \in Channels :
                      (\A i \in 1..Len(batteryChannels(dm)) : batteryChannels(dm)[i].channel # ch)
                          => st[ch] = Absent},
     levels : [1..Len(batteryChannels(dm)) -> Levels \cup {Err}]]

\* channelData[ch] of getBatteryInfo()
NoBattery == [has |-> FALSE, batteryLevel |-> NoLevel, sleeping |-> FALSE]

batteryInfoData(dm, rsp, ch) ==
    LET chs == batteryChannels(dm)
    IN  IF \E i \in 1..Len(chs) : chs[i].channel = ch
        THEN LET i == CHOOSE i \in 1..Len(chs) : chs[i].channel = ch
             IN  [has |-> TRUE,
                  batteryLevel |-> IF rsp.levels[i] = Err THEN NoLevel ELSE rsp.levels[i],
                  sleeping |-> rsp.status[ch] = 1]
        ELSE NoBattery

processBatteryData(d, data) == [d EXCEPT !.batteryLevel = data.batteryLevel]

\* the answers of the hub to a status batch: per command an error, or 1, or (for
\* GetWhiteLed) also 0
StatusAnswers(req) ==
    {rsp \in [1..Len(req) -> {Err, 0, 1}] :
        \A i \in 1..Len(req) : rsp[i] = 0 => req[i].cmd = "GetWhiteLed"}

\* channelData[ch] of getStatusInfo(): it has an entry for every channel of the map
statusData(dm, rsp, ch) ==
    IF \E i \in 1..Len(dm) : dm[i].channel = ch
    THEN LET i == CHOOSE i \in 1..Len(dm) : dm[i].channel = ch
             ix == statusIndex(dm[i], Len(statusBody(SubSeq(dm, 1, i - 1))))
         IN  [has |-> TRUE,
              floodlight |-> dm[i].caps.hasFloodlight /\ ix.floodlight # 0,
              floodlightEnabled |-> IF dm[i].caps.hasFloodlight /\ ix.floodlight # 0
                                    THEN rsp[ix.floodlight] = 1 ELSE FALSE,
              pirEnabled |-> IF dm[i].caps.hasPirEvents /\ ix.pir # 0
                             THEN rsp[ix.pir] = 1 ELSE FALSE]
    ELSE [has |-> FALSE, floodlight |-> FALSE, floodlightEnabled |-> FALSE,
          pirEnabled |-> FALSE]

\* processDeviceStatusData(): the floodlight and the PIR sensor of a camera that has
\* them follow the data, also when the data has no floodlightEnabled or pirEnabled
\* (the device is then no longer on: undefined is kept as FALSE)
processDeviceStatusData(c, d, data) ==
    [d EXCEPT !.floodlightOn = IF c.caps.hasFloodlight THEN data.floodlightEnabled ELSE @,
              !.pirOn = IF c.caps.hasPirEvents THEN data.pirEnabled ELSE @]

\* the channels a forEach over cameraChannelMap hands data to when the processing of the
\* channels in raised throws: the processing functions are async, the error of one is a
\* rejected promise nobody awaits and the loop goes on
Reached_sync(cs, raised) ==
    {cs[i].channel : i \in {j \in 1..Len(cs) : \A h \in 1..(j - 1) : cs[h].channel \notin raised}}

Reached(cs, raised) == Registered(cs)

\* the tick from the status batch on
fromStatus(lp) ==
    IF lp.now - lp.lastDevicesStatusCheck > StatusEvery /\ anyAwaken(lp.devicesMap)
    THEN [loop |-> [lp EXCEPT !.pc = "status", !.lastDevicesStatusCheck = lp.now],
          sent |-> "status", req |-> statusBody(lp.devicesMap)]
    ELSE [loop |-> [lp EXCEPT !.pc = "idle", !.devicesMap = <<>>, !.now = now],
          sent |-> "", req |-> <<>>]

\* the tick from the battery batch on
fromBattery(lp) ==
    IF anyBattery(lp.devicesMap)
    THEN [loop |-> [lp EXCEPT !.pc = "battery"], sent |-> "battery",
          req |-> batteryBody(lp.devicesMap)]
    ELSE fromStatus(lp)

\* the tick from the events batch on
fromEvents(lp) ==
    IF cams # <<>>
    THEN [loop |-> [lp EXCEPT !.pc = "events"], sent |-> "events",
          req |-> eventsBody(lp.devicesMap)]
    ELSE fromBattery(lp)

Since(t) == IF t = Never THEN -Never ELSE now - t

\* the loop goes on as nx says: what is sent is recorded
Continue(nx, e) ==
    /\ loop' = nx.loop
    /\ ev' = [e EXCEPT !.sent = nx.sent, !.req = nx.req,
                       !.woke = IF nx.sent = "status" THEN hist.woke \cup e.woke ELSE e.woke,
                       !.sinceBattery = Since(hist.batterySentAt),
                       !.sinceStatus = Since(hist.statusSentAt)]
    /\ hist' = [batterySentAt |-> IF nx.sent = "battery" THEN now ELSE hist.batterySentAt,
                statusSentAt |-> IF nx.sent = "status" THEN now ELSE hist.statusSentAt,
                woke |-> IF nx.sent = "status" THEN {}
                         ELSE (hist.woke \cup e.woke) \ {ch \in Channels :
                                   \E i \in 1..Len(cams') : cams'[i].channel = ch
                                                            /\ cams'[i].caps.sleeping}]

\* the timer runs the tick: the cameras are read into devicesMap
StartTick ==
    /\ loop.pc = "idle"
    /\ cams' = cams
    /\ devices' = devices
    /\ Continue(fromEvents([loop EXCEPT !.devicesMap = devicesMap(cams), !.now = now]),
                [NoEv EXCEPT !.op = "tick"])
    /\ UNCHANGED <<clientVars, restVars>>

\* the channels whose motion reading is answered with an error, with the field the
\* reading is for
EventsMissing(req, rsp) ==
    {<<req[i].channel, "motionDetected">> :
        i \in {j \in 1..Len(req) : /\ rsp[j].channel = NoChannel
                                   /\ req[j].cmd \in {"GetEvents", "GetMdState"}}}

\* the answer without motion and without objects
QuietAnswer(req) == [i \in 1..Len(req) |->
                       [cmd |-> req[i].cmd, channel |-> req[i].channel,
                        state |-> FALSE, people |-> FALSE]]

\* the sets of channels whose processing may throw in one step
Raisers(mayRaise) == IF mayRaise THEN {{}} \cup {{ch} : ch \in Registered(cams)} ELSE {{}}

\* the events batch is answered: every camera gets what is filed under its channel
\* (any: with any answer of the hub, else with the quiet one)
EventsAnswer(any, mayRaise) ==
    /\ loop.pc = "events"
    /\ \E rsp \in (IF any THEN EventsAnswers(eventsBody(loop.devicesMap))
                   ELSE {QuietAnswer(eventsBody(loop.devicesMap))}),
          raised \in Raisers(mayRaise) :
         LET data(ch) == eventsRet(rsp, ch, NoEvents)
             with == {ch \in Registered(cams) : data(ch).has}
             done == (with \cap Reached(cams, raised)) \ raised
         IN  /\ raised \subseteq with
             /\ devices' = [ch \in Channels |->
                              IF ch \in done THEN processEvents(devices[ch], data(ch))
                              ELSE devices[ch]]
             /\ cams' = cams
             /\ Continue(fromBattery(loop),
                         [NoEv EXCEPT !.op = "events", !.rsp = rsp, !.data = with,
                                      !.raised = raised,
                                      !.processed = done,
                                      !.missing = EventsMissing(eventsBody(loop.devicesMap), rsp),
                                      !.positive = {ch \in done : Truthy(data(ch).motion)},
                                      !.detections = [ch \in Channels |->
                                          IF ch \in done THEN data(ch).objects ELSE {}]])
    /\ UNCHANGED <<clientVars, restVars>>

\* the answer that has every level and finds every battery camera awake
AwakeAnswer(dm) ==
    [status |-> [ch \in Channels |->
                    IF \E i \in 1..Len(batteryChannels(dm)) : batteryChannels(dm)[i].channel = ch
                    THEN 0 ELSE Absent],
     levels |-> [i \in 1..Len(batteryChannels(dm)) |-> CHOOSE l \in Levels : TRUE]]

\* the battery batch is answered
BatteryAnswer(any, mayRaise) ==
    /\ loop.pc = "battery"
    /\ \E rsp \in (IF any THEN BatteryAnswers(loop.devicesMap) ELSE {AwakeAnswer(loop.devicesMap)}),
          raised \in Raisers(mayRaise) :
         LET data(ch) == batteryInfoData(loop.devicesMap, rsp, ch)
             with == {ch \in Registered(cams) : data(ch).has}
             done == (with \cap Reached(cams, raised)) \ raised
         IN  /\ raised \subseteq with
             /\ devices' = [ch \in Channels |->
                              IF ch \in done THEN processBatteryData(devices[ch], data(ch))
                              ELSE devices[ch]]
             /\ cams' = [i \in 1..Len(cams) |->
                            IF cams[i].channel \in done
                            THEN [cams[i] EXCEPT !.caps.sleeping = data(cams[i].channel).sleeping]
                            ELSE cams[i]]
             /\ Continue(fromStatus(loop),
                         [NoEv EXCEPT !.op = "battery", !.data = with, !.raised = raised,
                                      !.processed = done,
                                      !.missing =
                                          {<<ch, "batteryLevel">> : ch \in
                                              {c \in with : data(c).batteryLevel = NoLevel}}
                                          \cup {<<ch, "sleeping">> : ch \in
                                              {c \in with : rsp.status[c] = Absent}},
                                      !.woke = {ch \in done : /\ CameraOn(cams, ch).caps.sleeping
                                                              /\ ~data(ch).sleeping}])
    /\ UNCHANGED <<clientVars, restVars>>

\* the status batch is answered
StatusAnswer(any, mayRaise) ==
    /\ loop.pc = "status"
    /\ \E rsp \in (IF any THEN StatusAnswers(statusBody(loop.devicesMap))
                   ELSE {[i \in 1..Len(statusBody(loop.devicesMap)) |-> 1]}),
          raised \in Raisers(mayRaise) :
         LET data(ch) == statusData(loop.devicesMap, rsp, ch)
             with == {ch \in Registered(cams) : data(ch).has}
             done == (with \cap Reached(cams, raised)) \ raised
             req  == statusBody(loop.devicesMap)
         IN  /\ raised \subseteq with
             /\ devices' = [ch \in Channels |->
                              IF ch \in done
                              THEN processDeviceStatusData(CameraOn(cams, ch), devices[ch], data(ch))
                              ELSE devices[ch]]
             /\ cams' = cams
             /\ Continue([loop |-> [loop EXCEPT !.pc = "idle", !.devicesMap = <<>>, !.now = now],
                          sent |-> "", req |-> <<>>],
                         [NoEv EXCEPT !.op = "status", !.data = with, !.raised = raised,
                                      !.processed = done,
                                      !.missing =
                                          {<<req[i].channel, "floodlightOn">> :
                                              i \in {j \in 1..Len(req) :
                                                        /\ rsp[j] = Err
                                                        /\ req[j].cmd = "GetWhiteLed"}}
                                          \cup {<<req[i].channel, "pirOn">> :
                                              i \in {j \in 1..Len(req) :
                                                        /\ rsp[j] = Err
                                                        /\ req[j].cmd = "GetPirInfo"}}])
    /\ UNCHANGED <<clientVars, restVars>>

\* the request of the tick fails, or comes back without a response: the tick is over
HubFails ==
    /\ loop.pc # "idle"
    /\ loop' = [loop EXCEPT !.pc = "idle", !.devicesMap = <<>>, !.now = now]
    /\ ev' = [NoEv EXCEPT !.op = "fail"]
    /\ UNCHANGED <<cams, devices, hist>>
    /\ UNCHANGED <<clientVars, restVars>>

\* one unit of time passes: a motion timer that is due clears the flag
Elapse ==
    /\ loop.pc # "idle" => loop.now > now - MaxWait
    /\ loop' = [loop EXCEPT !.now = IF loop.pc = "idle" THEN now ELSE @ - 1,
                            !.lastDevicesStatusCheck =
                                Shift(@, 1, now - StatusEvery - MaxWait - 1)]
    /\ devices' = [ch \in Channels |->
                      IF devices[ch].motionTimeout = NoTimer THEN devices[ch]
                      ELSE IF devices[ch].motionTimeout = 1
                      THEN [devices[ch] EXCEPT !.motionDetected = FALSE, !.motionTimeout = NoTimer]
                      ELSE [devices[ch] EXCEPT !.motionTimeout = @ - 1]]
    /\ hist' = [hist EXCEPT !.batterySentAt = Shift(@, 1, now - BatteryEvery - 1),
                            !.statusSentAt = Shift(@, 1, now - StatusEvery - 1)]
    /\ ev' = [NoEv EXCEPT !.op = "elapse"]
    /\ UNCHANGED cams
    /\ UNCHANGED <<clientVars, restVars>>

InitLoop ==
    /\ cams \in Fleets
    /\ batch = NoBatch
    /\ InitChannels
    /\ client = [tokenLease |-> NoLease, parameters |-> NoParams, loggingIn |-> FALSE,
                 loggedIn |-> FALSE, rebooting |-> FALSE, conmnectionTime |-> now,
                 maxSessionsCount |-> 0, loginFirstCount |-> 0]
    /\ timers = {}
    /\ provider = [processing |-> FALSE, lastErrorsCheck |-> now]
    /\ stack = [p \in Procs |-> <<>>]
    /\ last = Nothing
    /\ obs = [authTallied |-> 0, rebootAt |-> Never, checkAt |-> now]
    /\ InitRest

\* the cadence of the batches: the events are quiet, battery and status answers are any
NextLoop ==
    \/ StartTick
    \/ EventsAnswer(FALSE, TRUE)
    \/ BatteryAnswer(TRUE, TRUE)
    \/ StatusAnswer(TRUE, TRUE)
    \/ HubFails
    \/ Elapse

SpecLoop == InitLoop /\ [][NextLoop]_vars

\* the motion of the channels: the events are any, the battery cameras are found awake
NextMotion ==
    \/ StartTick
    \/ EventsAnswer(TRUE, FALSE)
    \/ BatteryAnswer(FALSE, FALSE)
    \/ StatusAnswer(FALSE, FALSE)
    \/ HubFails
    \/ Elapse

SpecMotion == InitLoop /\ [][NextMotion]_vars

\* ---- the registry: cameras come and go while the loop runs ----

Without(seq, i) == [j \in 1..(Len(seq) - 1) |-> IF j < i THEN seq[j] ELSE seq[j + 1]]

\* a camera object for channel ch is built from its stored settings: the constructor
\* registers it under its device id
Construct(ch, kd) ==
    /\ ch \notin Registered(cams)
    /\ cams' = Append(cams, Camera(ch, kd))
    /\ keys' = Append(keys, "id")
    /\ released' = released \ {ch}
    /\ devices' = [devices EXCEPT ![ch] = NewDevice]
    /\ ev' = [NoEv EXCEPT !.op = "construct"]
    /\ UNCHANGED <<loop, hist, hub, camera>>
    /\ UNCHANGED clientVars

\* createDevice() for channel ch: the new camera is registered under String(rtspChannel),
\* in the place of a camera that is under that key already
CreateDevice(ch, kd) ==
    /\ \A i \in 1..Len(cams) : cams[i].channel = ch => keys[i] = "rtspChannel" /\ ch \in released
    /\ IF ch \in Registered(cams)
       THEN /\ cams' = [i \in 1..Len(cams) |->
                          IF cams[i].channel = ch THEN Camera(ch, kd) ELSE cams[i]]
            /\ keys' = keys
       ELSE /\ cams' = Append(cams, Camera(ch, kd))
            /\ keys' = Append(keys, "rtspChannel")
    /\ released' = released \ {ch}
    /\ devices' = [devices EXCEPT ![ch] = NewDevice]
    /\ ev' = [NoEv EXCEPT !.op = "create"]
    /\ UNCHANGED <<loop, hist, hub, camera>>
    /\ UNCHANGED clientVars

\* releaseDevice(id, nativeId) for the device of channel ch: the entry under the device
\* id is deleted
ReleaseDevice(ch) ==
    /\ ch \in Registered(cams) \ released
    /\ LET i == CHOOSE j \in 1..Len(cams) : cams[j].channel = ch
       IN  IF keys[i] = "id"
           THEN cams' = Without(cams, i) /\ keys' = Without(keys, i)
           ELSE cams' = cams /\ keys' = keys
    /\ released' = released \cup {ch}
    /\ ev' = [NoEv EXCEPT !.op = "release"]
    /\ UNCHANGED <<devices, loop, hist, hub, camera>>
    /\ UNCHANGED clientVars

\* the cameras of the registry: a battery camera on channel 0, mains cameras elsewhere
KindOn(ch) == IF ch = 0 THEN BatteryPir ELSE Floodlit

InitRegistry ==
    /\ cams = <<>>
    /\ batch = NoBatch
    /\ InitChannels
    /\ client = [tokenLease |-> NoLease, parameters |-> NoParams, loggingIn |-> FALSE,
                 loggedIn |-> FALSE, rebooting |-> FALSE, conmnectionTime |-> now,
                 maxSessionsCount |-> 0, loginFirstCount |-> 0]
    /\ timers = {}
    /\ provider = [processing |-> FALSE, lastErrorsCheck |-> now]
    /\ stack = [p \in Procs |-> <<>>]
    /\ last = Nothing
    /\ obs = [authTallied |-> 0, rebootAt |-> Never, checkAt |-> now]
    /\ InitRest

\* cameras are added and released while the loop runs; the hub answers every batch in
\* full and quietly
NextRegistry ==
    \/ \E ch \in Channels : Construct(ch, KindOn(ch))
    \/ \E ch \in Channels : CreateDevice(ch, KindOn(ch))
    \/ \E ch \in Channels : ReleaseDevice(ch)
    \/ StartTick
    \/ EventsAnswer(FALSE, FALSE)
    \/ BatteryAnswer(FALSE, FALSE)
    \/ StatusAnswer(FALSE, FALSE)
    \/ HubFails
    \/ Elapse

SpecRegistry == InitRegistry /\ [][NextRegistry]_vars

\* ---- the tick with its hub-info refresh ----

\* the timer runs a tick whose refresh is due: getHubInfo() is asked
TickRefresh ==
    /\ loop.pc = "idle" /\ hub.pc = "idle"
    /\ Due(hub)
    /\ hub' = refreshStart(hub)
    /\ ev' = [NoEv EXCEPT !.op = "refresh"]
    /\ UNCHANGED <<cams, devices, loop, hist, keys, released, camera>>
    /\ UNCHANGED clientVars

\* the timer runs a tick whose refresh is not due
TickNoRefresh ==
    /\ hub.pc = "idle"
    /\ ~Due(hub)
    /\ hub' = [hub EXCEPT !.op = ""]
    /\ loop.pc = "idle"
    /\ cams' = cams
    /\ devices' = devices
    /\ Continue(fromEvents([loop EXCEPT !.devicesMap = devicesMap(cams), !.now = now]),
                [NoEv EXCEPT !.op = "tick"])
    /\ UNCHANGED <<keys, released, camera>>
    /\ UNCHANGED clientVars

\* a request of the refresh throws, or comes back without a response and reading the
\* body throws: the tick is over
RefreshFails ==
    /\ hub.pc # "idle"
    /\ hub' = [hub EXCEPT !.pc = "idle", !.op = "failed", !.thrown = TRUE,
                          !.failedAt = hub.attemptAt]
    /\ ev' = [NoEv EXCEPT !.op = "refreshFailed"]
    /\ UNCHANGED <<cams, devices, loop, hist, keys, released, camera>>
    /\ UNCHANGED clientVars

\* getHubInfo() is answered: getDevicesInfo() asks for the channels
HubInfoAnswer(a) ==
    /\ hub.pc = "hubInfo"
    /\ hub' = [hub EXCEPT !.pc = "channels", !.op = "hubInfo", !.abilities = a]
    /\ ev' = [NoEv EXCEPT !.op = "hubInfo"]
    /\ UNCHANGED <<cams, devices, loop, hist, keys, released, camera>>
    /\ UNCHANGED clientVars

\* the hub reports n channels with a uid: two commands per channel are asked
ChannelsAnswer(n) ==
    /\ hub.pc = "channels"
    /\ hub' = [hub EXCEPT !.pc = "devicesInfo", !.op = "channels", !.channels = n]
    /\ ev' = [NoEv EXCEPT !.op = "channels"]
    /\ UNCHANGED <<cams, devices, loop, hist, keys, released, camera>>
    /\ UNCHANGED clientVars

\* the hub answers the commands of getDevicesInfo() one for one: the answer is read,
\* and if that does not throw the three values are stored and the tick goes on with
\* its batches
DevicesInfoAnswer ==
    /\ hub.pc = "devicesInfo"
    /\ loop.pc = "idle"
    /\ LET len == 2 * hub.channels
           out == getDevicesInfo(hub.channels, len)
       IN  IF out.thrown
           THEN /\ hub' = [hub EXCEPT !.pc = "idle", !.op = "devicesInfo", !.len = len,
                                      !.thrown = TRUE, !.ret = <<>>,
                                      !.failedAt = hub.attemptAt]
                /\ ev' = [NoEv EXCEPT !.op = "refreshFailed"]
                /\ UNCHANGED <<cams, devices, loop, hist>>
           ELSE /\ hub' = [hub EXCEPT !.pc = "idle", !.op = "devicesInfo", !.len = len,
                                      !.thrown = FALSE, !.ret = out.ret,
                                      !.stored = [abilities |-> hub.abilities,
                                                  hubData |-> hub.abilities,
                                                  devicesData |-> out.ret]]
                /\ cams' = cams
                /\ devices' = devices
                /\ Continue(fromEvents([loop EXCEPT !.devicesMap = devicesMap(cams),
                                                    !.now = now]),
                            [NoEv EXCEPT !.op = "tick"])
    /\ UNCHANGED <<keys, released, camera>>
    /\ UNCHANGED clientVars

\* a minute passes between two ticks (a tick takes less)
Minute ==
    /\ loop.pc = "idle" /\ hub.pc = "idle"
    /\ \A ch \in Channels : devices[ch].motionTimeout = NoTimer
    /\ hub' = [hub EXCEPT !.op = "",
                          !.lastHubInfoCheck = Shift(@, 1, now - RefreshEvery - 1),
                          !.attemptAt = Shift(@, 1, now - RefreshEvery - 1),
                          !.failedAt = Shift(@, 1, now - RefreshEvery - 1)]
    /\ loop' = [loop EXCEPT !.lastDevicesStatusCheck =
                                Shift(@, PerMinute, now - StatusEvery - MaxWait - 1)]
    /\ hist' = [hist EXCEPT !.batterySentAt = Shift(@, PerMinute, now - BatteryEvery - 1),
                            !.statusSentAt = Shift(@, PerMinute, now - StatusEvery - 1)]
    /\ ev' = [NoEv EXCEPT !.op = "elapse"]
    /\ UNCHANGED <<cams, devices, keys, released, camera>>
    /\ UNCHANGED clientVars

\* the tick with its refresh; the hub answers the batches in full and quietly
NextHubInfo ==
    \/ TickRefresh
    \/ TickNoRefresh
    \/ RefreshFails
    \/ \E a \in HubAnswers : HubInfoAnswer(a)
    \/ \E n \in 0..MaxCams : ChannelsAnswer(n)
    \/ DevicesInfoAnswer
    \/ EventsAnswer(FALSE, FALSE)
    \/ BatteryAnswer(FALSE, FALSE)
    \/ StatusAnswer(FALSE, FALSE)
    \/ HubFails
    \/ Minute

SpecHubInfo == InitLoop /\ [][NextHubInfo]_vars

\* ---- one camera alone: its flags are read, pictures are asked for, time passes ----

\* the has...() questions are asked
ReadFlags ==
    /\ camera' = [camera EXCEPT !.op = "flags", !.snap = FALSE, !.returned = "",
                     !.flags = [hasSiren |-> hasSiren(camera.abilities),
                                hasFloodlight |-> hasFloodlight(camera.abilities),
                                hasBattery |-> hasBattery(camera.abilities),
                                hasPtz |-> getPtzCapabilities(camera.abilities).hasPtz,
                                hasPirEvents |-> hasPirEvents(camera.abilities)]]
    /\ UNCHANGED <<keys, released, hub>>
    /\ UNCHANGED <<clientVars, channelVars, cams>>

\* takeSmartCameraPicture(): a Snap request goes out when canTake, and what it brings
\* is cached (ok: jpegSnapshot returns a picture, else it throws)
TakeSmartCameraPicture(ok) ==
    /\ LET take == canTake(camera)
       IN  camera' = [camera EXCEPT
               !.op = "takePicture", !.flags = NoFlags,
               !.snap = take,
               !.lastB64Snapshot = IF take /\ ok THEN TRUE ELSE @,
               !.lastSnapshotTaken = IF take /\ ok THEN now ELSE @,
               !.returned = IF take THEN (IF ok THEN "new" ELSE "thrown")
                            ELSE IF camera.lastB64Snapshot THEN "cached" ELSE "null"]
    /\ UNCHANGED <<keys, released, hub>>
    /\ UNCHANGED <<clientVars, channelVars, cams>>

\* battery data arrives with another sleeping than the camera has
SleepChanges ==
    /\ camera' = [camera EXCEPT !.op = "sleep", !.flags = NoFlags, !.snap = FALSE,
                                !.returned = "", !.sleeping = ~@]
    /\ UNCHANGED <<keys, released, hub>>
    /\ UNCHANGED <<clientVars, channelVars, cams>>

\* d units pass: single units while the snapshot is young
SnapshotAges(d) ==
    /\ camera.lastSnapshotTaken # Never
    /\ d = 1 => now - camera.lastSnapshotTaken <= SnapshotBattery
    /\ camera' = [camera EXCEPT !.op = "wait", !.flags = NoFlags, !.snap = FALSE,
                                !.returned = "",
                                !.lastSnapshotTaken = Shift(@, d, now - SnapshotMax - 1)]
    /\ UNCHANGED <<keys, released, hub>>
    /\ UNCHANGED <<clientVars, channelVars, cams>>

InitCamera ==
    /\ cams = <<Camera(0, Plain)>>
    /\ batch = NoBatch
    /\ InitChannels
    /\ client = [tokenLease |-> NoLease, parameters |-> NoParams, loggingIn |-> FALSE,
                 loggedIn |-> FALSE, rebooting |-> FALSE, conmnectionTime |-> now,
                 maxSessionsCount |-> 0, loginFirstCount |-> 0]
    /\ timers = {}
    /\ provider = [processing |-> FALSE, lastErrorsCheck |-> now]
    /\ stack = [p \in Procs |-> <<>>]
    /\ last = Nothing
    /\ obs = [authTallied |-> 0, rebootAt |-> Never, checkAt |-> now]
    /\ keys = <<"id">>
    /\ released = {}
    /\ hub = NoHub
    /\ camera \in {NewCamera(ab) : ab \in CameraAbilities}

NextCamera ==
    \/ ReadFlags
    \/ \E ok \in BOOLEAN : TakeSmartCameraPicture(ok)
    \/ SleepChanges
    \/ \E d \in {1, SnapshotMax} : SnapshotAges(d)

SpecCamera == InitCamera /\ [][NextCamera]_vars

\* a network operation of caller p completes
Completes(p) ==
    \/ \E lease \in LeaseTimes : LoginOk(p, lease)
    \/ LoginFail(p)
    \/ Respond(p, Batch(0, 6))
    \/ RequestFail(p)

\* every hub call of the tick eventually returns or fails
SpecTickFair == SpecTick /\ \A p \in Timers : WF_vars(Completes(p))

\* ------------------------------------------------------------------------
\* properties
\* ------------------------------------------------------------------------

\* C1: while a credential exchange is in flight (loggingIn is true) no second one is
\* started: at most one caller awaits getLoginParameters, whichever entry point the
\* overlapping calls of login() came from, and loggingIn is true while one does
C1_OneExchange ==
    /\ \A p, q \in Procs : AwaitsLogin(p) /\ AwaitsLogin(q) => p = q
    /\ \A p \in Procs : AwaitsLogin(p) => client.loggingIn

\* a direct call of login() has returned without an exchange while the tick's is in flight
C1_Witness ==
    /\ AwaitsLogin("poll")
    /\ last.op = "callLogin" /\ last.ended /\ ~last.xchg

\* C2: every command request in flight carries the token of the login (and so, with no
\* token available, no request is issued)
C2_Original == \A p \in Procs : AwaitsRequest(p) => Top(stack[p]).tok = Token

C4_Original ==
    last.op = "providerReboot" /\ last.ended /\ last.def
        => last.n = 1 /\ last.ack = AckCode /\ client.rebooting

\* C5: a send() called after a reboot() invoked at T and before T + 60 s makes no network
\* call: it starts no credential exchange and issues no command request
C5_Original ==
    last.op = "send" /\ obs.rebootAt # Never /\ last.at > obs.rebootAt /\ now < obs.rebootAt + Grace
        => last.sent = "" /\ ~last.xchg

\* a call of reboot() is in progress in caller p
RebootInProgress(p) == \E i \in 1..Len(stack[p]) : stack[p][i].f = "reboot.rwl"

\* C6: every call of reboot(), however it ends, schedules the grace timer: while rebooting
\* is true, a call of reboot() is still in progress or a grace timer is pending
C6_Original ==
    client.rebooting => timers # {} \/ \E p \in Procs : RebootInProgress(p)

\* C7: after a response without a per-command error both error counters are 0
C7_Original ==
    last.got = "clean" => client.loginFirstCount = 0 /\ client.maxSessionsCount = 0

\* C8: checkErrors() calls reconnect() once per run of more than 5 auth errors: each call
\* of reconnect() finds the connection stale or more than 5 auth errors tallied since
\* reconnect() last completed
C8_Original ==
    [][ "reconnect" \in last'.calls
            => \/ now - client.conmnectionTime > StaleAfter
               \/ obs.authTallied > ErrorThreshold ]_vars

\* C9: with more than 5 session-limit errors tallied (and nothing that checkErrors() puts
\* first) the periodic check that runs calls reboot(), which sets rebooting; from then
\* until the grace period has elapsed nothing is sent to the hub
C9_Original ==
    [][ /\ ( /\ last'.checked /\ ~client.rebooting
             /\ now - client.conmnectionTime <= StaleAfter
             /\ client.loginFirstCount <= ErrorThreshold
             /\ client.maxSessionsCount > ErrorThreshold )
            => last'.calls = {"reboot"} /\ obs'.rebootAt = now
        /\ obs.rebootAt # Never /\ now < obs.rebootAt + Grace
            => last'.sent = "" /\ ~last'.xchg ]_vars

\* C10: what checkErrors() does is a function of rebooting, the age of the connection and
\* the two counters: nothing while rebooting; else reconnect() if the connection is older
\* than 1 h or loginFirstCount > 5; else reboot() if maxSessionsCount > 5; else nothing
C10_Decision ==
    [][ last'.checked =>
          LET stale == now - client.conmnectionTime > StaleAfter
              auth  == client.loginFirstCount > ErrorThreshold
              sess  == client.maxSessionsCount > ErrorThreshold
          IN  /\ client.rebooting => last'.calls = {}
              /\ ~client.rebooting /\ (stale \/ auth) => last'.calls = {"reconnect"}
              /\ ~client.rebooting /\ ~stale /\ ~auth /\ sess => last'.calls = {"reboot"}
              /\ ~client.rebooting /\ ~stale /\ ~auth /\ ~sess => last'.calls = {} ]_vars

\* checkErrors() has called reboot() with an auth counter of exactly 5
C10_Witness ==
    /\ last.checked /\ last.calls = {"reboot"}
    /\ client.loginFirstCount = ErrorThreshold

\* the lease of the client is valid at the present instant
LeaseValid == client.tokenLease # NoLease /\ client.tokenLease > now

\* C11: after a failed credential exchange the client can log in again: a call of login()
\* made while the lease is not valid and no exchange is in flight starts an exchange
C11_Original ==
    [][ ( /\ stack["dev"] = <<>> /\ last'.op = "callLogin"
          /\ ~LeaseValid
          /\ \A p \in Procs : ~AwaitsLogin(p) )
        => last'.xchg ]_vars

\* C12: when a call of logout() has ended, by return or by exception, the lease is unset
\* and the token is gone
C12_Original ==
    last.loggedOut => client.tokenLease = NoLease /\ client.parameters # Token

\* C13: a step that starts a credential exchange began with no valid lease, or a call of
\* logout() ended in it
C13_NoExchangeInLease ==
    [][ last'.xchg => ~LeaseValid \/ last'.loggedOut ]_vars

\* a send() called after the login, with the lease still valid, has issued its request
\* without a credential exchange
C13_Witness ==
    /\ last.op = "send" /\ last.sent = "Cmd" /\ ~last.xchg
    /\ client.conmnectionTime < last.at /\ LeaseValid

\* the body of the tick is running in caller p
BodyRunning(p) == stack[p] # <<>>

\* C14: at most one tick body runs at a time, and an invocation of the timer callback that
\* finds an earlier tick running ends at once: it sends nothing, changes no state and leaves
\* nothing behind
C14_OneTick ==
    [][ /\ (\A p, q \in Timers : BodyRunning(p) /\ BodyRunning(q) => p = q)'
        /\ last'.op = "tick" /\ last'.inv /\ provider.processing
              => /\ last'.ended /\ last'.sent = "" /\ ~last'.xchg /\ ~last'.checked
                 /\ UNCHANGED <<client, timers, provider, stack, obs>> ]_vars

\* the timer has fired while a tick waits for the hub, and the invocation was dropped
C14_Witness ==
    /\ last.op = "tick" /\ last.inv /\ last.ended /\ provider.processing
    /\ AwaitsRequest("poll") /\ ~BodyRunning("poll2")

\* C15: every tick that starts ends with processing false, whether its body completes or
\* throws, provided every hub call returns or fails
C15_TickEnds == provider.processing ~> ~provider.processing

\* a tick has ended by an exception of a hub call, and processing is false
C15_Witness ==
    /\ last.op = "tick" /\ ~last.inv /\ last.ended
    /\ last.got = "" /\ last.sent = "" /\ ~provider.processing

\* caller p waits for the hub: for a command request or for a credential exchange
InFlight(p) == AwaitsRequest(p) \/ AwaitsLogin(p)

\* C16, as stated: at most one command request to the hub is in flight, the device-facing
\* operations counted with the poll loop
C16_Original == \A p, q \in Procs : AwaitsRequest(p) /\ AwaitsRequest(q) => p = q

\* C16, amended: the poll loop has at most one hub call in flight; the requests of the
\* device-facing operations are not serialized with it
C16_PollSerialized == \A p, q \in Timers : InFlight(p) /\ InFlight(q) => p = q

\* a batch of the poll loop and a device command are in flight together, and the timer
\* that fired meanwhile was dropped
C16_Witness ==
    /\ AwaitsRequest("poll") /\ AwaitsRequest("dev")
    /\ last.op = "tick" /\ last.inv /\ last.ended

\* C17: more than 60 s lie between two consecutive calls of checkErrors() by the poll loop,
\* and between the construction of the provider and the first call
C17_Throttle ==
    [][ last'.checked => now - obs.checkAt > ErrorsCheckEvery ]_vars

\* checkErrors() has run in a tick, after an earlier tick that logged in without running it
C17_Witness ==
    /\ last.op = "tick" /\ last.checked /\ client.loggedIn
    /\ obs.checkAt = now

\* the positions of a request whose command is for channel ch
PositionsOf(req, ch) == {i \in 1..Len(req) : req[i].channel = ch}

\* C18: in each of the three batches, what is attributed to a channel are exactly the
\* elements of the response at the positions of that channel's commands in the request
C18_Original ==
    batch.kind # "" => \A ch \in Channels : batch.out[ch] = PositionsOf(batch.req, ch)

\* the commands of a request for channel ch, in order
CommandsOf(req, ch) ==
    LET sel == SelectSeq(req, LAMBDA e : e.channel = ch)
    IN  [i \in 1..Len(sel) |-> sel[i].cmd]

\* C19: the events batch holds, for every registered camera, one GetEvents if it has PIR
\* events and the pair GetMdState, GetAiState otherwise, and nothing else
C19_Original ==
    batch.kind = "events" =>
        /\ \A i \in 1..Len(cams) :
              CommandsOf(batch.req, cams[i].channel) =
                  IF cams[i].caps.hasPirEvents THEN <<"GetEvents">>
                  ELSE <<"GetMdState", "GetAiState">>
        /\ Len(batch.req) =
              Cardinality({i \in 1..Len(cams) : cams[i].caps.hasPirEvents})
              + 2 * Cardinality({i \in 1..Len(cams) : ~cams[i].caps.hasPirEvents})

\* C20: a registered camera without resolved abilities is in the events batch with
\* GetMdState and GetAiState, and in no battery or status batch
C20_Original ==
    \A i \in 1..Len(cams) :
        ~cams[i].caps.abilities =>
            /\ batch.kind = "events" =>
                  CommandsOf(batch.req, cams[i].channel) = <<"GetMdState", "GetAiState">>
            /\ batch.kind \in {"battery", "status"} =>
                  CommandsOf(batch.req, cams[i].channel) = <<>>

\* C21: a battery batch is sent only with a battery camera registered and at least the
\* battery interval after the battery batch before it
C21_Original ==
    ev.sent = "battery" =>
        /\ \E i \in 1..Len(cams) : cams[i].caps.hasBattery
        /\ ev.sinceBattery >= BatteryEvery

\* C22: when battery data wakes a channel, a status batch with the commands of that
\* channel is sent at once
C22_Original ==
    \A ch \in Channels :
        (ev.op = "battery" /\ ch \in ev.woke) =>
            ev.sent = "status" /\ CommandsOf(ev.req, ch) # <<>>

\* C23: a status batch has no command for a channel that is asleep when it is sent
C23_Original ==
    ev.sent = "status" =>
        \A i \in 1..Len(cams) :
            cams[i].caps.sleeping => CommandsOf(ev.req, cams[i].channel) = <<>>

\* C24: the first status batch after a channel woke up has the commands of that channel
C24_Original ==
    ev.sent = "status" => \A ch \in ev.woke : CommandsOf(ev.req, ch) # <<>>

\* C25: a status batch is sent only more than 15 s after the status batch before it and
\* with a channel awake; a tick that finds every channel asleep sends none and leaves
\* lastDevicesStatusCheck alone
C25_Original ==
    /\ [](ev.sent = "status" =>
            /\ ev.sinceStatus > StatusEvery
            /\ \E i \in 1..Len(cams) : ~cams[i].caps.sleeping)
    /\ [][ (ev'.op = "tick" /\ \A i \in 1..Len(cams) : cams[i].caps.sleeping) =>
              /\ loop'.pc # "status"
              /\ loop'.lastDevicesStatusCheck = loop.lastDevicesStatusCheck ]_vars

\* C26: a motion flag whose timer has r units left stays set while no positive reading
\* arrives, whatever else is read, and is cleared when the r units have passed
C26_Original ==
    [][ \A ch \in Channels :
          (/\ devices[ch].motionDetected
           /\ devices[ch].motionTimeout # NoTimer
           /\ ch \notin ev'.positive) =>
              devices'[ch].motionDetected =
                  ~(ev'.op = "elapse" /\ devices[ch].motionTimeout = 1) ]_vars

\* C27: a positive reading for a channel whose flag is set and whose timer runs moves the
\* deadline to a full timeout after the reading
C27_Original ==
    [][ \A ch \in Channels :
          (/\ devices[ch].motionDetected
           /\ devices[ch].motionTimeout # NoTimer
           /\ ch \in ev'.positive) =>
              devices'[ch].motionTimeout = MotionTimeout ]_vars

\* the events answer says st and pp for channel ch: in its GetEvents element, or in its
\* GetMdState and GetAiState elements
Encodes(rsp, ch, st, pp) ==
    \/ \E i \in 1..Len(rsp) :
          rsp[i] = [cmd |-> "GetEvents", channel |-> ch, state |-> st, people |-> pp]
    \/ /\ \E i \in 1..Len(rsp) :
             rsp[i] = [cmd |-> "GetMdState", channel |-> ch, state |-> st, people |-> FALSE]
       /\ \E i \in 1..Len(rsp) :
             rsp[i] = [cmd |-> "GetAiState", channel |-> ch, state |-> FALSE, people |-> pp]

\* channel 0 is a battery camera with PIR events, channel 1 has neither, and the events
\* answer says no motion for channel 0, motion and people for channel 1
TwoChannelScenario ==
    /\ ev.op = "events"
    /\ Registered(cams) = {0, 1}
    /\ CameraOn(cams, 0).caps.hasBattery /\ CameraOn(cams, 0).caps.hasPirEvents
    /\ ~CameraOn(cams, 1).caps.hasBattery /\ ~CameraOn(cams, 1).caps.hasPirEvents
    /\ Encodes(ev.rsp, 0, FALSE, FALSE)
    /\ Encodes(ev.rsp, 1, TRUE, TRUE)

Sleeping(ch) == \E i \in 1..Len(cams) : cams[i].channel = ch /\ cams[i].caps.sleeping

\* the field of the camera on channel ch that mirrors a piece of data of the hub
Mirrored(ch, field) ==
    CASE field = "batteryLevel"   -> <<devices[ch].batteryLevel>>
      [] field = "sleeping"       -> <<Sleeping(ch)>>
      [] field = "floodlightOn"   -> <<devices[ch].floodlightOn>>
      [] field = "pirOn"          -> <<devices[ch].pirOn>>
      [] field = "motionDetected" -> <<devices[ch].motionDetected>>

\* C29: a channel whose entry is missing from the answer of a batch, or is an error,
\* keeps its state in that tick
C29_Original ==
    [][ \A m \in ev'.missing : Mirrored(m[1], m[2])' = Mirrored(m[1], m[2]) ]_vars

\* C30: when the processing of one channel's data throws, every other channel that has
\* data in the batch is still processed
C30_OthersProcessed ==
    ev.op \in {"events", "battery", "status"} => (ev.data \ ev.raised) \subseteq ev.processed

C30_Witness ==
    /\ Len(cams) = 2
    /\ ev.op \in {"events", "status"}
    /\ ev.raised = {cams[1].channel}
    /\ cams[2].channel \in ev.processed

Asked(cmd, ch) ==
    \E i \in 1..Len(statusBody(loop.devicesMap)) :
        statusBody(loop.devicesMap)[i] = Command(cmd, ch)

\* C35: the answer of a status batch leaves the floodlight and the PIR state of a channel
\* as they were when the batch had no command for them
C35_Original ==
    [][ ev'.op = "status" =>
          \A ch \in Channels :
              /\ ~Asked("GetWhiteLed", ch) => devices'[ch].floodlightOn = devices[ch].floodlightOn
              /\ ~Asked("GetPirInfo", ch) => devices'[ch].pirOn = devices[ch].pirOn ]_vars

\* C33: when reconnect() returns normally the client holds a token whose lease has not
\* expired and that was obtained after the logout, at the time of the return
C33_Original ==
    last.reconnected =>
        /\ client.parameters = Token
        /\ LeaseValid
        /\ client.conmnectionTime = now

\* C38: when putSetting() replaces the client, the client it drops holds no live session:
\* a token the hub granted has been given back by logout(), or its lease is over
C38_Original ==
    [][ last'.op = "putSetting" => ~(client.parameters = Token /\ LeaseValid) ]_vars

\* the version field of an ability entry is present and not zero
Present(ab, n) == ab[n] \notin {NoEntry, NoVer, 0}

\* C32: each capability flag of a channel is true exactly when a version field of the
\* capability is present and not zero: no entry, an entry without version and a version
\* of zero all give false
C32_Original ==
    camera.op = "flags" =>
        LET ab == camera.abilities
        IN  /\ camera.flags.hasSiren = "true" <=> Present(ab, "supportAudioAlarm")
            /\ camera.flags.hasBattery <=> Present(ab, "battery")
            /\ camera.flags.hasPirEvents <=> Present(ab, "mdWithPir")
            /\ camera.flags.hasFloodlight <=>
                   \E n \in {"floodLight", "supportFLswitch", "supportFLBrightness"} : Present(ab, n)
            /\ camera.flags.hasPtz <=>
                   \E n \in {"supportDigitalZoom", "ptzCtrl", "ptzPreset"} : Present(ab, n)

\* C39: takeSmartCameraPicture() sends no Snap request when a snapshot is cached and the
\* camera sleeps with a snapshot younger than an hour, or is an awake battery camera with
\* a snapshot younger than 15 s
C39_Original ==
    [][ ( /\ camera'.op = "takePicture"
          /\ camera.lastB64Snapshot /\ camera.lastSnapshotTaken # Never
          /\ \/ camera.sleeping /\ now - camera.lastSnapshotTaken < SnapshotMax
             \/ /\ ~camera.sleeping /\ hasBattery(camera.abilities)
                /\ now - camera.lastSnapshotTaken < SnapshotBattery )
        => ~camera'.snap /\ camera'.returned = "cached" ]_vars

\* C31: once the device of a channel is released, no tick that starts later builds a
\* batch with a command for the channel, and no data is handed to its camera any more,
\* whichever way the camera was registered
C31_Original ==
    [][ /\ ev'.op = "tick" =>
              \A ch \in released :
                  /\ ch \notin Registered(loop'.devicesMap)
                  /\ \A i \in 1..Len(ev'.req) : ev'.req[i].channel # ch
        /\ ev'.op \in {"events", "battery", "status"} => ev'.processed \cap released = {} ]_vars

\* C34: getDevicesInfo() with one channel or more, answered one element per command,
\* does not throw and reads for the k-th channel (from 0) the elements 2k and 2k + 1,
\* which answer the two commands of that channel
C34_Original ==
    (hub.op = "devicesInfo" /\ hub.channels >= 1 /\ hub.len = 2 * hub.channels) =>
        /\ ~hub.thrown
        /\ hub.ret = [k \in 1..hub.channels |->
                         [chnInfo |-> 2 * (k - 1), ai |-> 2 * (k - 1) + 1]]

\* C37: a refresh that fails stores nothing and ends the tick before any batch is sent,
\* and no refresh is attempted until more than 5 minutes after the failed one began
C37_FailedRefresh ==
    [][ /\ hub'.thrown /\ ~hub.thrown =>
              /\ hub'.stored = hub.stored
              /\ ev'.sent = "" /\ loop'.pc = "idle" /\ hub'.pc = "idle"
        /\ hub'.op = "refresh" =>
              hub.failedAt = Never \/ now - hub.failedAt > RefreshEvery ]_vars

\* a refresh has just failed, more than 5 minutes after an earlier one had stored its
\* data: the data is still there and nothing was sent
C37_Witness ==
    /\ hub.op = "failed" /\ hub.thrown
    /\ hub.stored.abilities # 0
    /\ hub.failedAt = now /\ ev.sent = ""

====
